---- MODULE Spec2Model ----
(***************************************************************************)
(* Verification model of the PPTAgent catalog-migration toolkit.           *)
(*                                                                         *)
(* The toolkit is a set of independent command-line pipelines.  Each one   *)
(* is modelled by its own group of variables and its own specification:    *)
(*   SpecMerge  - core/slides_to_json_merger.py (slide/catalog merge)      *)
(*   SpecExcel  - excel_to_products.py (workbook to product array)         *)
(*   SpecSlug   - core/slug_builder.py (slug assignment)                   *)
(*   SpecCat    - core/excel_to_json_custom.py (category resolution)       *)
(*   SpecStrapi - utils/strapi.py (HTTP client with retries)               *)
(*   SpecUpload - uploaders/batch_upload_products.py (batch upload)        *)
(*   SpecClient - utils/strapi.py and the StrapiUtils of the slide driver  *)
(*   SpecJson   - core/excel_to_json.py (id-based converter)               *)
(*   SpecSession - core/cli_slide_driver.py (interactive sessions)         *)
(*   SpecHeaders - excel_to_products.py (header matching and renaming)     *)
(*   SpecParse  - excel_to_products.py (cell parsers)                      *)
(*   SpecEnrich - excel_to_products_enriched.py (variation rewrite)        *)
(*   SpecRace   - sync_categories_with_online.py and update_product_ids.py *)
(*                run against the same products.json                       *)
(***************************************************************************)
EXTENDS Integers, Sequences, FiniteSets, TLC

\* State of core/slides_to_json_merger.py.
VARIABLES
    merger_pc,          \* position of main(): "load", "slides", "done"
    input_products,     \* the catalog array read from --input
    products_dict,      \* load_products(): referenceString -> product
    product_keys,       \* insertion order of products_dict
    slide_idx,          \* number of slides of the range already processed
    payload,            \* payload of the slide processed last
    unmatched_slides,   \* list of unmatched slide labels / references
    updated_count,      \* number of merges performed
    incomplete_products,\* issues: [referenceString, missing] entries
    enriched_products   \* the array written to --output

mergeVars == <<merger_pc, input_products, products_dict, product_keys,
               slide_idx, payload, unmatched_slides, updated_count,
               incomplete_products, enriched_products>>

\* State of excel_to_products.py.
VARIABLES
    xl_pc,              \* position of main(): "read", "rows", "done", "crashed"
    sheet,              \* the rows of the workbook, canonical column names
    only_ref,           \* --only-ref
    limit_variations,   \* --limit-variations
    df,                 \* the data frame main() works on
    row_i,              \* number of rows of df the grouping loop has handled
    products,           \* the products dict, as its entries in insertion order
    result              \* the array written to --out

excelVars == <<xl_pc, sheet, only_ref, limit_variations, df, row_i, products,
               result>>

\* State of core/slug_builder.py.
VARIABLES
    slug_pc,            \* position of main(): "read", "loop", "done"
    data,               \* the product list read from --input
    limit,              \* --limit
    existing_slugs,     \* slugs handed out in this run
    slug_i,             \* number of products the loop has handled
    updated_products    \* the list built by add_slugs_to_products

slugVars == <<slug_pc, data, limit, existing_slugs, slug_i, updated_products>>

\* State of core/excel_to_json_custom.py.
VARIABLES
    cat_pc,             \* position of main(): "load", "rows", "done"
    categories_map,     \* fetched category mapping, in file order
    divisions_map,      \* fetched division mapping, in file order
    cat_df,             \* the rows of the workbook
    cat_i,              \* number of rows the conversion loop has handled
    converted,          \* what convert_row_to_strapi_format returned last
    cat_products,       \* the products collected for products.json
    skipped,            \* number of rows skipped
    validation_results  \* validation info of the skipped rows

catVars == <<cat_pc, categories_map, divisions_map, cat_df, cat_i, converted,
             cat_products, skipped, validation_results>>

\* State of utils/strapi.py.
VARIABLES
    req_pc,             \* "idle", "request" (inside _make_request), "returned"
    req_op,             \* the function of the module that was called
    attempt,            \* loop variable of _make_request
    req_log,            \* outcome of every requests.request of this call
    response,           \* what _make_request returned
    op_result           \* what the called function returned

reqVars == <<req_pc, req_op, attempt, req_log, response, op_result>>

\* State of uploaders/batch_upload_products.py.
VARIABLES
    up_pc,              \* position of run_upload(): "start", "batch", "save", ...
    up_run,             \* number of the run of the script (1 = first run)
    up_catalog,         \* the array read from products.json
    batch_size,         \* BatchUploader.batch_size
    start_index,        \* loop variable of run_upload
    up_i,               \* loop variable of upload_batch
    uploaded_products,  \* BatchUploader.uploaded_products
    failed_products,    \* BatchUploader.failed_products
    request_log,        \* every HTTP request of this run, with its outcome
    confirm_log,        \* every answer to "Continue with next batch?"
    remote,             \* the records of the remote collection
    saved_uploaded,     \* content of uploaded_products_<ts>.json, or None
    saved_failed        \* content of failed_products_<ts>.json, or None

uploadVars == <<up_pc, up_run, up_catalog, batch_size, start_index, up_i,
                uploaded_products, failed_products, request_log, confirm_log,
                remote, saved_uploaded, saved_failed>>

\* State of the StrapiUtils class of core/cli_slide_driver.py.
VARIABLES
    drv_op,             \* the method called last
    drv_outcome,        \* what its HTTP request did
    drv_result          \* what the method returned

driverVars == <<drv_op, drv_outcome, drv_result>>

\* State of core/excel_to_json.py.
VARIABLES
    js_pc,              \* position of main(): "read", "rows", "done"
    js_categories_map,  \* keys of categories_map.json
    js_divisions_map,   \* keys of divisions_map.json
    js_df,              \* the rows of the workbook
    js_i,               \* number of rows the loop has handled
    js_products,        \* the products collected for the output file
    js_skipped,         \* number of rows skipped
    js_validation_results, \* validation info of the skipped rows
    missing_categories, \* the validation summary: missing categories
    missing_divisions   \* the validation summary: missing divisions

jsonVars == <<js_pc, js_categories_map, js_divisions_map, js_df, js_i,
              js_products, js_skipped, js_validation_results,
              missing_categories, missing_divisions>>


\* State of the sessions of core/cli_slide_driver.py.
VARIABLES
    ss_pc,              \* position of main(): "start", "slide", "exited"
    ss_phase,           \* "earlier": the first session, "later": the next one
    total_slides,       \* len(prs.slides)
    start_slide,        \* start_slide of main()
    end_slide,          \* end_slide of main()
    slide_number,       \* slide_index + 1 of the loop of main()
    ss_entries,         \* ProgressTracker.entries
    progress_file,      \* content of the progress file
    ss_loaded,          \* number of entries load_progress() returned
    ss_resumed,         \* the operator accepted to resume
    ss_last,            \* what process_slide_interactive did on its last call
    ss_exit             \* how the session ended: "quit", "interrupt", "completed"

sessionVars == <<ss_pc, ss_phase, total_slides, start_slide, end_slide,
                 slide_number, ss_entries, progress_file, ss_loaded,
                 ss_resumed, ss_last, ss_exit>>

\* State of the header renaming of excel_to_products.py.
VARIABLES
    columns,            \* df.columns: the raw headers of the sheet
    hdr_i,              \* number of columns the renaming loop has handled
    hdr_canon,          \* what match_header returned for the last column
    rename              \* the rename dict, as its items in insertion order

headerVars == <<columns, hdr_i, hdr_canon, rename>>

\* State of the cell parsers of excel_to_products.py.
VARIABLES
    pr_pc,              \* "cell", "parsed", "reparsed"
    pr_cell,            \* the cell handed to the parsers
    parsed,             \* what each parser returned for the cell
    reparsed            \* what each parser returned for its own output

parseVars == <<pr_pc, pr_cell, parsed, reparsed>>

\* State of excel_to_products_enriched.py.
VARIABLES
    en_pc,              \* position of main(): "read", "rows", "write", "done"
    existing_products,  \* the array read from --enriched, mutated in place
    en_catalog,         \* the array as it was read
    en_df,              \* the data frame the grouping loop iterates over
    en_i,               \* number of rows of en_df the loop has handled
    variations_by_ref,  \* the dict, as its items in insertion order
    products_not_found, \* the references reported missing
    en_output           \* the array written to --output, or None

enrichVars == <<en_pc, existing_products, en_catalog, en_df, en_i,
                variations_by_ref, products_not_found, en_output>>

\* State of two scripts run against the same products.json.
VARIABLES
    products_json,      \* content of products.json
    rc_original,        \* content of products.json before either script ran
    sync_pc,            \* sync_categories_with_online: "load", "write", "done"
    sync_products,      \* its in-memory copy of the catalog
    ids_pc,             \* update_product_ids: "load", "write", "done"
    ids_products,       \* its in-memory copy of the catalog
    products_backup,    \* content of products_backup.json
    rc_log              \* the loads and writes, in the order they happened

raceVars == <<products_json, rc_original, sync_pc, sync_products, ids_pc,
              ids_products, products_backup, rc_log>>

pipelineVars == <<mergeVars, excelVars, slugVars, catVars, reqVars, uploadVars,
                  driverVars, jsonVars>>
toolVars == <<sessionVars, headerVars, parseVars, enrichVars, raceVars>>

vars == <<pipelineVars, toolVars>>

\* The variables each pipeline leaves alone.
notMerge == <<excelVars, slugVars, catVars, reqVars, uploadVars, driverVars,
              jsonVars,
    toolVars>>
notExcel == <<mergeVars, slugVars, catVars, reqVars, uploadVars, driverVars,
              jsonVars,
    toolVars>>
notSlug == <<mergeVars, excelVars, catVars, reqVars, uploadVars, driverVars,
             jsonVars,
    toolVars>>
notCat == <<mergeVars, excelVars, slugVars, reqVars, uploadVars, driverVars,
            jsonVars,
    toolVars>>
notReq == <<mergeVars, excelVars, slugVars, catVars, uploadVars, driverVars,
            jsonVars,
    toolVars>>
notUpload == <<mergeVars, excelVars, slugVars, catVars, reqVars, driverVars,
               jsonVars,
    toolVars>>
notDriver == <<mergeVars, excelVars, slugVars, catVars, reqVars, uploadVars,
               jsonVars,
    toolVars>>
notJson == <<mergeVars, excelVars, slugVars, catVars, reqVars, uploadVars,
             driverVars,
    toolVars>>
notSession == <<pipelineVars, headerVars, parseVars, enrichVars, raceVars>>
notHeaders == <<pipelineVars, sessionVars, parseVars, enrichVars, raceVars>>
notParse == <<pipelineVars, sessionVars, headerVars, enrichVars, raceVars>>
notEnrich == <<pipelineVars, sessionVars, headerVars, parseVars, raceVars>>
notRace == <<pipelineVars, sessionVars, headerVars, parseVars, enrichVars>>

(***************************************************************************)
(* Python values.  A value is a record tagged with its Python type, so     *)
(* that truthiness (`not x`, `if x`) is computed as the interpreter does.  *)
(***************************************************************************)
VNone == [t |-> "none"]
VStr(s) == [t |-> "str", s |-> s]
VInt(n) == [t |-> "int", n |-> n]
VList(l) == [t |-> "list", l |-> l]
VDict(d) == [t |-> "dict", d |-> d]

\* bool(v): None, "", 0, [] and {} are falsy, everything else is truthy.
Truthy(v) ==
    CASE v.t = "none" -> FALSE
      [] v.t = "str"  -> v.s # ""
      [] v.t = "int"  -> v.n # 0
      [] v.t = "list" -> v.l # <<>>
      [] v.t = "dict" -> DOMAIN v.d # {}

\* dict.get(key): the value, or None when the key is absent.
Get(d, k) == IF k \in DOMAIN d THEN d[k] ELSE VNone

(***************************************************************************)
(* core/slides_to_json_merger.py                                           *)
(***************************************************************************)
\* Number of slides in the requested range (--start .. --end).
MaxSlides == 2

fields_to_merge ==
    <<"standard", "description", "tableInMd", "PackagingInformation", "images">>

MergeFields == {fields_to_merge[i] : i \in 1..Len(fields_to_merge)}

\* The PackagingInformation component.
Packaging(inner, cartons, gp, hc, notes) ==
    VDict([packing_per_inner_box  |-> VInt(inner),
           inner_boxes_per_carton |-> VInt(cartons),
           loading_capacity_20GP  |-> VInt(gp),
           loading_capacity_40HC  |-> VInt(hc),
           additional_notes       |-> VStr(notes)])

\* The record both spreadsheet converters write for a new product.
DefaultPackaging == Packaging(0, 0, 0, 0, "Not specified")

\* A packaging record with one sub-field filled in.
PartialPackaging == Packaging(50, 0, 0, 0, "Not specified")

\* A packaging record as extracted from a slide.
SlidePackaging == Packaging(100, 10, 500, 1000, "per slide")

\* Catalog products: the first product, under reference "1.1", ranges over
\* every combination of present/absent field values; the converters write
\* one product per sheet row, so the second product may carry the same
\* reference.
ExcelProductValues ==
    [name                 : {VStr("Syringe")},
     referenceString      : {VStr("1.1")},
     standard             : {VStr(""), VStr("???"), VStr("Existing")},
     description          : {VStr(""), VStr("Existing")},
     tableInMd            : {VStr(""), VStr("Existing")},
     PackagingInformation : {VNone, DefaultPackaging, PartialPackaging},
     images               : {VList(<<>>), VList(<<3>>)}]

\* A product as excel_to_json_custom.convert_row_to_strapi_format writes it.
ConvertedProduct(ref) ==
    [name                 |-> VStr("Needle"),
     referenceString      |-> VStr(ref),
     standard             |-> VStr("???"),
     description          |-> VStr(""),
     tableInMd            |-> VStr(""),
     images               |-> VList(<<>>),
     PackagingInformation |-> DefaultPackaging]

\* Payloads process_slide_two_steps can hand to the merger: a slide either
\* yields text for every free-text field and an image, or for none; its
\* packaging component and its reference vary independently.
SlideData(ref, text, pack, imgs) ==
    [referenceString      |-> ref,
     standard             |-> VStr(text),
     description          |-> VStr(text),
     tableInMd            |-> VStr(text),
     PackagingInformation |-> pack,
     images               |-> VList(imgs)]

SlidePayloads ==
    {[data |-> SlideData(ref, fill[1], pack, fill[2])] :
        ref  \in {VStr(""), VStr("1.1"), VStr("1.2"), VStr("9.9")},
        fill \in {<<"", <<>> >>, <<"New", <<7>> >>},
        pack \in {VNone, DefaultPackaging, SlidePackaging}}

NoPayload == [data |-> [referenceString |-> VNone]]

\* load_products: dict keyed by referenceString; a later product with the
\* same reference replaces the earlier one and keeps the earlier position.
RECURSIVE load_keys(_)
load_keys(catalog) ==
    IF catalog = <<>> THEN <<>>
    ELSE LET front == load_keys(SubSeq(catalog, 1, Len(catalog) - 1))
             ref   == catalog[Len(catalog)].data.referenceString.s
         IN IF \E i \in 1..Len(front) : front[i] = ref
            THEN front ELSE Append(front, ref)

load_products(catalog) ==
    [ref \in {catalog[i].data.referenceString.s : i \in 1..Len(catalog)} |->
        LET last == CHOOSE i \in 1..Len(catalog) :
                      /\ catalog[i].data.referenceString.s = ref
                      /\ \A j \in (i+1)..Len(catalog) :
                            catalog[j].data.referenceString.s # ref
        IN catalog[last].data]

\* Mutant of merge_slide_data: the slide value replaces the catalog value
\* whenever the slide has one.
merge_slide_data_overwrite(slide_payload, excel_product) ==
    LET slide_data == slide_payload.data
        take(f) == Truthy(Get(slide_data, f))
    IN [f \in DOMAIN excel_product \cup {g \in MergeFields : take(g)} |->
          IF f \in MergeFields /\ take(f) THEN slide_data[f] ELSE excel_product[f]]

\* merge_slide_data: copy of the catalog product in which each mergeable
\* field takes the slide value iff `not excel_value and slide_value`.
merge_slide_data(slide_payload, excel_product) ==
    LET slide_data == slide_payload.data
        take(f) == /\ ~Truthy(Get(excel_product, f))
                   /\ Truthy(Get(slide_data, f))
    IN [f \in DOMAIN excel_product \cup {g \in MergeFields : take(g)} |->
          IF f \in MergeFields /\ take(f) THEN slide_data[f] ELSE excel_product[f]]

\* check_completeness: the required fields that are missing, in order.
\* A PackagingInformation dict counts as missing when none of its values
\* is truthy and different from "Not specified".
FieldMissing(product, field) ==
    LET value == Get(product, field)
    IN IF ~Truthy(value) THEN TRUE
       ELSE /\ field = "PackagingInformation"
            /\ value.t = "dict"
            /\ ~\E k \in DOMAIN value.d :
                   /\ Truthy(value.d[k])
                   /\ value.d[k] # VStr("Not specified")

check_completeness(product) ==
    SelectSeq(fields_to_merge, LAMBDA f : FieldMissing(product, f))

MergeInit ==
    /\ merger_pc = "load"
    /\ input_products \in
         {<<[data |-> p], [data |-> ConvertedProduct(ref)]>> :
             p \in ExcelProductValues, ref \in {"1.2", "1.1"}}
    /\ products_dict = <<>>
    /\ product_keys = <<>>
    /\ slide_idx = 0
    /\ payload = NoPayload
    /\ unmatched_slides = <<>>
    /\ updated_count = 0
    /\ incomplete_products = <<>>
    /\ enriched_products = <<>>

\* main(), lines 102-117: load the catalog and start the slide loop.
LoadProducts ==
    /\ merger_pc = "load"
    /\ products_dict' = load_products(input_products)
    /\ product_keys' = load_keys(input_products)
    /\ merger_pc' = "slides"
    /\ UNCHANGED <<input_products, slide_idx, payload, unmatched_slides,
                   updated_count, incomplete_products, enriched_products>>
    /\ UNCHANGED notMerge

\* One iteration of the slide loop in which process_slide_two_steps returns
\* payload p.
ProcessSlide ==
    /\ merger_pc = "slides"
    /\ slide_idx < MaxSlides
    /\ \E p \in SlidePayloads :
         LET ref == p.data.referenceString IN
         /\ payload' = p
         /\ IF ~Truthy(ref)
            THEN /\ unmatched_slides' =
                       Append(unmatched_slides, "slide_" \o ToString(slide_idx + 1))
                 /\ UNCHANGED <<products_dict, updated_count>>
            ELSE IF ref.s \in DOMAIN products_dict
            THEN /\ products_dict' =
                       [products_dict EXCEPT
                           ![ref.s] = merge_slide_data(p, products_dict[ref.s])]
                 /\ updated_count' = updated_count + 1
                 /\ UNCHANGED unmatched_slides
            ELSE /\ unmatched_slides' = Append(unmatched_slides, ref.s)
                 /\ UNCHANGED <<products_dict, updated_count>>
    /\ slide_idx' = slide_idx + 1
    /\ UNCHANGED <<merger_pc, input_products, product_keys,
                   incomplete_products, enriched_products>>
    /\ UNCHANGED notMerge

\* One iteration in which extraction raises: the slide is listed as
\* unmatched under its own label.
ProcessSlideError ==
    /\ merger_pc = "slides"
    /\ slide_idx < MaxSlides
    /\ unmatched_slides' =
           Append(unmatched_slides, "slide_" \o ToString(slide_idx + 1))
    /\ slide_idx' = slide_idx + 1
    /\ UNCHANGED <<merger_pc, input_products, products_dict, product_keys,
                   payload, updated_count, incomplete_products,
                   enriched_products>>
    /\ UNCHANGED notMerge

\* main(), lines 140-165: completeness check and the two output files.
WriteOutputs ==
    /\ merger_pc = "slides"
    /\ slide_idx = MaxSlides
    /\ incomplete_products' =
         LET entry(i) == [referenceString |-> product_keys[i],
                          missing |-> check_completeness(products_dict[product_keys[i]])]
             all == [i \in 1..Len(product_keys) |-> entry(i)]
         IN SelectSeq(all, LAMBDA e : e.missing # <<>>)
    /\ enriched_products' =
         [i \in 1..Len(product_keys) |-> [data |-> products_dict[product_keys[i]]]]
    /\ merger_pc' = "done"
    /\ UNCHANGED <<input_products, products_dict, product_keys, slide_idx,
                   payload, unmatched_slides, updated_count>>
    /\ UNCHANGED notMerge

MergeNext ==
    \/ LoadProducts
    \/ ProcessSlide
    \/ ProcessSlideError
    \/ WriteOutputs

(***************************************************************************)
(* Text.  A Python str whose characters the code inspects is a tuple of    *)
(* one-character strings; a missing cell (pandas NaN) and a missing        *)
(* argument (None) are tuples no text is equal to.                         *)
(***************************************************************************)
NaN == <<"NaN">>
NoArg == <<"None">>

DigitChars == {"0", "1", "2", "3", "4", "5", "6", "7", "8", "9"}

\* str.strip(): leading and trailing blanks removed.
RECURSIVE LStrip(_)
LStrip(s) == IF s # <<>> /\ Head(s) = " " THEN LStrip(Tail(s)) ELSE s

RECURSIVE RStrip(_)
RStrip(s) ==
    IF s # <<>> /\ s[Len(s)] = " " THEN RStrip(SubSeq(s, 1, Len(s) - 1)) ELSE s

Strip(s) == RStrip(LStrip(s))

\* str(x) of a cell: a float NaN prints as "nan", text is itself.
PyStr(x) == IF x = NaN THEN <<"n", "a", "n">> ELSE x

\* `x or ""`: only the empty text is falsy; NaN is a truthy float.
OrEmpty(x) == IF x = <<>> THEN <<>> ELSE x

\* int(s) of a run of decimal digits.
DigitValue(c) ==
    CASE c = "0" -> 0 [] c = "1" -> 1 [] c = "2" -> 2 [] c = "3" -> 3
      [] c = "4" -> 4 [] c = "5" -> 5 [] c = "6" -> 6 [] c = "7" -> 7
      [] c = "8" -> 8 [] c = "9" -> 9

RECURSIVE ToInt(_)
ToInt(s) ==
    IF s = <<>> THEN 0
    ELSE 10 * ToInt(SubSeq(s, 1, Len(s) - 1)) + DigitValue(s[Len(s)])

\* ord(c) for the characters of the modelled sheets.
Ord(c) ==
    CASE c = " " -> 32 [] c = "-" -> 45 [] c = "." -> 46
      [] c \in DigitChars -> 48 + DigitValue(c)
      [] c = "A" -> 65 [] c = "B" -> 66 [] c = "M" -> 77 [] c = "S" -> 83
      [] c = "X" -> 88 [] c = "Y" -> 89
      [] c = "a" -> 97 [] c = "n" -> 110

\* s < t for two texts: first differing character decides, a proper prefix
\* is smaller.
RECURSIVE StrLess(_, _)
StrLess(s, t) ==
    IF t = <<>> THEN FALSE
    ELSE IF s = <<>> THEN TRUE
    ELSE IF Head(s) # Head(t) THEN Ord(Head(s)) < Ord(Head(t))
    ELSE StrLess(Tail(s), Tail(t))

(***************************************************************************)
(* excel_to_products.py                                                    *)
(***************************************************************************)

\* Largest number of rows of a modelled sheet.
MaxRows == 3

R12 == <<"1", ".", "2">>
R110 == <<"1", ".", "1", "0">>

SheetRow(ref, name, size) ==
    [reference     |-> ref,
     product_name  |-> name,
     category_name |-> IF name = NaN THEN NaN ELSE <<"X">> \o name,
     size          |-> size]

\* The rows of the modelled sheets: variation rows with or without their
\* own reference and name, continuation rows under a merged cell, rows
\* without a size (missing, empty, blank), a row with a blank reference.
SheetRows ==
    {SheetRow(ref, name, <<"S">>) :
        ref \in {NaN, R12, R110}, name \in {NaN, <<"A">>, <<"B">>}}
    \cup {SheetRow(NaN, NaN, size) :
        size \in {<<"M", " ">>, NaN, <<>>, <<" ">>}}
    \cup {SheetRow(<<" ">>, NaN, <<"S">>)}

Sheets == UNION {[1..n -> SheetRows] : n \in 1..MaxRows}

\* Series.ffill(): a missing cell takes the value of the nearest cell above
\* it that is not missing; leading missing cells stay missing.
RECURSIVE ffill(_)
ffill(col) ==
    IF col = <<>> THEN <<>>
    ELSE LET front == ffill(SubSeq(col, 1, Len(col) - 1))
             last  == col[Len(col)]
         IN Append(front,
                   IF last = NaN /\ front # <<>> THEN front[Len(front)] ELSE last)

Column(frame, c) == [i \in 1..Len(frame) |-> frame[i][c]]

\* Lines 125-128: forward-fill of reference, product_name, category_name.
forward_fill(frame) ==
    LET ref  == ffill(Column(frame, "reference"))
        name == ffill(Column(frame, "product_name"))
        cat  == ffill(Column(frame, "category_name"))
    IN [i \in 1..Len(frame) |->
          [reference     |-> ref[i],
           product_name  |-> name[i],
           category_name |-> cat[i],
           size          |-> frame[i].size]]

\* Line 132: df["size"].astype(str).str.strip().ne("").
has_size(row) == Strip(PyStr(row.size)) # <<>>

\* Line 137: str.match(rf"^{re.escape(only_ref)}(\b|$)") on the trimmed
\* text of the reference; only_ref ends in a word character, so the word
\* boundary holds at the end of the text or before a non-word character.
IsWordChar(c) == c \in DigitChars \cup {"A", "B", "M", "S", "X", "Y", "a", "n", "_"}

matches_only_ref(row) ==
    LET text == Strip(PyStr(row.reference))
        n    == Len(only_ref)
    IN /\ Len(text) >= n
       /\ SubSeq(text, 1, n) = only_ref
       /\ (Len(text) = n \/ ~IsWordChar(text[n + 1]))

\* `if args.only_ref`: given and not empty.
only_ref_given == only_ref # NoArg /\ only_ref # <<>>

\* Lines 125-139: the frame the grouping loop iterates over.
prepared_frame(rows) ==
    LET filled == forward_fill(rows)
        sized  == SelectSeq(filled, has_size)
    IN IF only_ref_given THEN SelectSeq(sized, matches_only_ref) ELSE sized

\* build_variation: the sheet has no certification, packing or carton
\* columns, so every r.get() but the size is None and the parsers return
\* their value for a missing cell.
build_variation(r) ==
    [size             |-> Strip(OrEmpty(r.size)),
     picture          |-> FALSE,
     ce               |-> FALSE,
     ce_mdr           |-> FALSE,
     fda              |-> FALSE,
     iso              |-> <<>>,
     pcs_inner        |-> VNone,
     pcs_outer        |-> VNone,
     loading_capacity |-> [gp20 |-> VNone, hc40 |-> VNone],
     carton_size      |-> <<>>]

\* Line 81: `(r.get("size") or "").strip()` raises AttributeError when the
\* cell is a float NaN, which has no strip().
build_variation_raises(r) == r.size = NaN

\* Lines 158-172: the parent record of a new product.
new_parent(ref, prod_name, cat_name) ==
    [name                 |-> prod_name,
     referenceString      |-> ref,
     category             |-> VNone,
     categoryName         |-> cat_name,
     divisions            |-> VList(<<>>),
     divisionNames        |-> VList(<<>>),
     standard             |-> VStr(""),
     description          |-> VStr(""),
     tableInMd            |-> VStr(""),
     images               |-> VList(<<>>),
     PackagingInformation |-> DefaultPackaging,
     variations           |-> <<>>]

\* Position of a reference in the products dict, 0 when absent.
product_index(prods, ref) ==
    IF \E i \in 1..Len(prods) : prods[i].data.referenceString = ref
    THEN CHOOSE i \in 1..Len(prods) : prods[i].data.referenceString = ref
    ELSE 0

\* Lines 156-174: the products dict after a row joined its product.
with_variation(prods, r, ref) ==
    LET cat_name  == Strip(PyStr(OrEmpty(r.category_name)))
        prod_name == Strip(PyStr(OrEmpty(r.product_name)))
        known     == IF product_index(prods, ref) = 0
                     THEN Append(prods, [data |-> new_parent(ref, prod_name, cat_name)])
                     ELSE prods
        k         == product_index(known, ref)
    IN [known EXCEPT ![k].data.variations = Append(@, build_variation(r))]

\* re.split(r"(\d+)", x): the text between the runs of digits and the runs
\* themselves, alternating, starting and ending with a (possibly empty)
\* text between.
RECURSIVE TakeWhile(_, _)
TakeWhile(s, set) ==
    IF s # <<>> /\ Head(s) \in set
    THEN <<Head(s)>> \o TakeWhile(Tail(s), set) ELSE <<>>

Drop(s, n) == SubSeq(s, n + 1, Len(s))

RECURSIVE split_digits(_)
split_digits(x) ==
    IF x = <<>> THEN <<<<>>>>
    ELSE IF Head(x) \in DigitChars
    THEN LET run == TakeWhile(x, DigitChars)
         IN <<<<>>, run>> \o split_digits(Drop(x, Len(run)))
    ELSE LET rest == split_digits(Tail(x))
         IN <<<<Head(x)>> \o Head(rest)>> \o Tail(rest)

\* Line 185, the sort key: [int(s) if s.isdigit() else s for s in ...].
natural_key(x) ==
    LET parts == split_digits(x)
    IN [i \in 1..Len(parts) |->
          IF parts[i] # <<>> /\ \A j \in 1..Len(parts[i]) : parts[i][j] \in DigitChars
          THEN [int |-> ToInt(parts[i])]
          ELSE [str |-> parts[i]]]

\* a < b for two keys (Python list comparison).  Texts sit at the odd and
\* numbers at the even positions of every key, so the elements compared
\* are always of one type.
RECURSIVE KeyLess(_, _)
KeyLess(a, b) ==
    IF b = <<>> THEN FALSE
    ELSE IF a = <<>> THEN TRUE
    ELSE IF Head(a) = Head(b) THEN KeyLess(Tail(a), Tail(b))
    ELSE IF "int" \in DOMAIN Head(a)
    THEN Head(a).int < Head(b).int
    ELSE StrLess(Head(a).str, Head(b).str)

\* sorted(..., key=natural_key): stable, ascending.
RECURSIVE insert_by_key(_, _)
insert_by_key(p, sorted) ==
    IF sorted = <<>> THEN <<p>>
    ELSE IF KeyLess(natural_key(p.data.referenceString),
                    natural_key(Head(sorted).data.referenceString))
    THEN <<p>> \o sorted
    ELSE <<Head(sorted)>> \o insert_by_key(p, Tail(sorted))

\* Mutant of sorted_products: the products in insertion (first-seen) order.
sorted_products_first_seen(prods) == prods

RECURSIVE sorted_products(_)
sorted_products(prods) ==
    IF prods = <<>> THEN <<>>
    ELSE insert_by_key(prods[Len(prods)],
                       sorted_products(SubSeq(prods, 1, Len(prods) - 1)))

\* Lines 177-179: obj["data"]["variations"][:limit].
limited(prods) ==
    IF limit_variations = VNone THEN prods
    ELSE [i \in 1..Len(prods) |->
            [prods[i] EXCEPT !.data.variations =
                SubSeq(@, 1, IF limit_variations.n < Len(@)
                             THEN limit_variations.n ELSE Len(@))]]

ExcelInit ==
    /\ xl_pc = "read"
    /\ sheet \in Sheets
    /\ only_ref \in {NoArg, R12}
    /\ limit_variations \in {VNone, VInt(1)}
    /\ df = <<>>
    /\ row_i = 0
    /\ products = <<>>
    /\ result = <<>>

\* main(), lines 105-142: read, forward-fill, filter.
PrepareFrame ==
    /\ xl_pc = "read"
    /\ df' = prepared_frame(sheet)
    /\ xl_pc' = "rows"
    /\ UNCHANGED <<sheet, only_ref, limit_variations, row_i, products, result>>
    /\ UNCHANGED notExcel

\* One iteration of the grouping loop, lines 146-174.
GroupRow ==
    /\ xl_pc = "rows"
    /\ row_i < Len(df)
    /\ LET r   == df[row_i + 1]
           ref == Strip(PyStr(OrEmpty(r.reference)))
       IN IF ref = <<>> \/ (only_ref_given /\ ref # only_ref)
          THEN UNCHANGED <<xl_pc, products>>
          ELSE IF build_variation_raises(r)
          THEN /\ xl_pc' = "crashed"
               /\ UNCHANGED products
          ELSE /\ products' = with_variation(products, r, ref)
               /\ UNCHANGED xl_pc
    /\ row_i' = row_i + 1
    /\ UNCHANGED <<sheet, only_ref, limit_variations, df, result>>
    /\ UNCHANGED notExcel

\* main(), lines 176-194: limit, sort, select, write.
WriteProducts ==
    /\ xl_pc = "rows"
    /\ row_i = Len(df)
    /\ products' = limited(products)
    /\ result' =
         IF only_ref_given
         THEN SelectSeq(products', LAMBDA p : p.data.referenceString = only_ref)
         ELSE sorted_products(products')
    /\ xl_pc' = "done"
    /\ UNCHANGED <<sheet, only_ref, limit_variations, df, row_i>>
    /\ UNCHANGED notExcel

ExcelNext ==
    \/ PrepareFrame
    \/ GroupRow
    \/ WriteProducts

(***************************************************************************)
(* core/slug_builder.py                                                    *)
(***************************************************************************)

\* Largest number of products of a modelled catalog, largest --limit.
MaxCatalog == 3
MaxLimit == 2

LowerLetters == <<"a", "b", "c", "d", "e", "f", "g", "h", "i", "j", "k", "l", "m",
                  "n", "o", "p", "q", "r", "s", "t", "u", "v", "w", "x", "y", "z">>
UpperLetters == <<"A", "B", "C", "D", "E", "F", "G", "H", "I", "J", "K", "L", "M",
                  "N", "O", "P", "Q", "R", "S", "T", "U", "V", "W", "X", "Y", "Z">>

\* str.lower() and str.upper(), character by character.
LowerChar(c) ==
    IF \E i \in 1..26 : UpperLetters[i] = c
    THEN LowerLetters[CHOOSE i \in 1..26 : UpperLetters[i] = c] ELSE c

UpperChar(c) ==
    IF \E i \in 1..26 : LowerLetters[i] = c
    THEN UpperLetters[CHOOSE i \in 1..26 : LowerLetters[i] = c] ELSE c

Lower(s) == [i \in 1..Len(s) |-> LowerChar(s[i])]
Upper(s) == [i \in 1..Len(s) |-> UpperChar(s[i])]

\* unicodedata.normalize('NFD', text): an accented letter becomes the base
\* letter followed by its combining mark (written "'" here).
RECURSIVE NFD(_)
NFD(s) ==
    IF s = <<>> THEN <<>>
    ELSE (IF Head(s) = "é" THEN <<"e", "'">> ELSE <<Head(s)>>) \o NFD(Tail(s))

\* \w and \s of the re module, on the characters of the modelled names.
IsWord(c) ==
    \/ c \in DigitChars \/ c = "_"
    \/ \E i \in 1..26 : LowerLetters[i] = c \/ UpperLetters[i] = c \/ c = "é"

IsSpace(c) == c = " "

\* re.sub(r'[-\s]+', '-', text).
RECURSIVE collapse_hyphens(_)
collapse_hyphens(s) ==
    IF s = <<>> THEN <<>>
    ELSE IF Head(s) = "-" \/ IsSpace(Head(s))
    THEN LET run == TakeWhile(s, {"-", " "})
         IN <<"-">> \o collapse_hyphens(Drop(s, Len(run)))
    ELSE <<Head(s)>> \o collapse_hyphens(Tail(s))

RECURSIVE LStripHyphen(_)
LStripHyphen(s) == IF s # <<>> /\ Head(s) = "-" THEN LStripHyphen(Tail(s)) ELSE s

RECURSIVE RStripHyphen(_)
RStripHyphen(s) ==
    IF s # <<>> /\ s[Len(s)] = "-"
    THEN RStripHyphen(SubSeq(s, 1, Len(s) - 1)) ELSE s

slugify(text) ==
    IF text = <<>> THEN <<>>
    ELSE LET lowered == Lower(NFD(text))
             kept    == SelectSeq(lowered,
                            LAMBDA c : IsWord(c) \/ IsSpace(c) \/ c = "-")
         IN RStripHyphen(LStripHyphen(collapse_hyphens(kept)))

\* str(n) of a natural number.
DigitOf(n) ==
    CASE n = 0 -> "0" [] n = 1 -> "1" [] n = 2 -> "2" [] n = 3 -> "3"
      [] n = 4 -> "4" [] n = 5 -> "5" [] n = 6 -> "6" [] n = 7 -> "7"
      [] n = 8 -> "8" [] n = 9 -> "9"

RECURSIVE Decimal(_)
Decimal(n) ==
    IF n < 10 THEN <<DigitOf(n)>> ELSE Append(Decimal(n \div 10), DigitOf(n % 10))

\* The while loop of generate_unique_slug, from the given counter on.
RECURSIVE next_free_slug(_, _, _)
next_free_slug(base_slug, counter, taken) ==
    LET slug == base_slug \o <<"-">> \o Decimal(counter)
    IN IF slug \in taken THEN next_free_slug(base_slug, counter + 1, taken)
       ELSE slug

generate_unique_slug(name, taken) ==
    LET slugged   == slugify(name)
        base_slug == IF slugged = <<>> THEN <<"p", "r", "o", "d", "u", "c", "t">>
                     ELSE slugged
    IN IF base_slug \in taken THEN next_free_slug(base_slug, 1, taken)
       ELSE base_slug

\* Catalog entries: {"data": {"name": ...}} with or without a "slug" left
\* by an earlier run.
ProductNames ==
    {<<>>, <<"S", "y">>, <<"s", "y", " ", "1">>, <<"S", "é">>, <<"!">>}

CatalogEntries ==
    {[data |-> [name |-> n]] : n \in ProductNames}
    \cup {[data |-> [name |-> n, slug |-> <<"s", "y">>]] : n \in ProductNames}

Catalogs == UNION {[1..n -> CatalogEntries] : n \in 1..MaxCatalog}

\* `limit` as a Python condition: None and 0 are falsy.
limit_given == limit # VNone /\ limit.n # 0

Prefix(list, n) == SubSeq(list, 1, IF n < Len(list) THEN n ELSE Len(list))

\* Line 86: products[:limit] if limit else products.
products_to_process == IF limit_given THEN Prefix(data, limit.n) ELSE data

SlugInit ==
    /\ slug_pc = "read"
    /\ data \in Catalogs
    /\ limit \in {VNone} \cup {VInt(n) : n \in 0..MaxLimit}
    /\ existing_slugs = {}
    /\ slug_i = 0
    /\ updated_products = <<>>

\* main() lines 127-140 and add_slugs_to_products lines 82-88.
ReadCatalog ==
    /\ slug_pc = "read"
    /\ slug_pc' = "loop"
    /\ UNCHANGED <<data, limit, existing_slugs, slug_i, updated_products>>
    /\ UNCHANGED notSlug

\* One iteration of the loop of add_slugs_to_products, lines 90-110.
SlugProduct ==
    /\ slug_pc = "loop"
    /\ slug_i < Len(products_to_process)
    /\ LET product == products_to_process[slug_i + 1]
           name    == product.data.name
       IN IF name = <<>>
          THEN /\ updated_products' = Append(updated_products, product)
               /\ UNCHANGED existing_slugs
          ELSE LET slug == generate_unique_slug(name, existing_slugs)
               IN /\ existing_slugs' = existing_slugs \cup {slug}
                  /\ updated_products' =
                       Append(updated_products,
                              [data |-> [name |-> name, slug |-> slug]])
    /\ slug_i' = slug_i + 1
    /\ UNCHANGED <<slug_pc, data, limit>>
    /\ UNCHANGED notSlug

\* Lines 112-116 and main() lines 142-151: the products past the limit are
\* appended as they are and the list is written.
WriteCatalog ==
    /\ slug_pc = "loop"
    /\ slug_i = Len(products_to_process)
    /\ updated_products' =
         IF limit_given /\ Len(data) > limit.n
         THEN updated_products \o SubSeq(data, limit.n + 1, Len(data))
         ELSE updated_products
    /\ slug_pc' = "done"
    /\ UNCHANGED <<data, limit, existing_slugs, slug_i>>
    /\ UNCHANGED notSlug

SlugNext ==
    \/ ReadCatalog
    \/ SlugProduct
    \/ WriteCatalog

(***************************************************************************)
(* core/excel_to_json_custom.py                                            *)
(***************************************************************************)

\* Largest number of rows of a modelled workbook.
MaxCatRows == 2

\* A text as one TLA+ string, to index the literal tables of the code.
RECURSIVE Join(_)
Join(s) == IF s = <<>> THEN "" ELSE Head(s) \o Join(Tail(s))

\* dict.get(key, default) on a literal table.
TableGet(table, key, default) ==
    IF key \in DOMAIN table THEN table[key] ELSE default

\* The table of map_category_to_id, lines 78-115.
category_mapping ==
    "SYRINGES" :> 59 @@ "NEEDLES" :> 60 @@ "SCALP VEIN SETS" :> 61
    @@ "BLOOD LANCETS" :> 62 @@ "INFUSION SETS" :> 63
    @@ "INFUSION ACCESORIES" :> 64 @@ "TRANSFUSION SETS" :> 65
    @@ "EXTENSION TUBES" :> 66 @@ "IV CANNULAS" :> 67 @@ "GLOVES" :> 68
    @@ "CONDOMS" :> 69 @@ "ADHESIVE TAPES & DRESSINGS" :> 70 @@ "GAUZE" :> 71
    @@ "DISPOSABLE NON-WOVEN GOURMENTS" :> 72 @@ "URINARY CATHETERS" :> 73
    @@ "HEMODIALYSIS CATHETERS" :> 74 @@ "SUCTION CATHETER" :> 75
    @@ "ENTERAL FEEDING TUBES" :> 76 @@ "BLOOD EXTRACTION" :> 77
    @@ "CENTRAL VENOUS CATHETERS (CVC)" :> 78 @@ "ELECTRODES" :> 79
    @@ "ENDOBRONCHEAL TUBES" :> 80 @@ "ENDOTRACHEAL TUBES" :> 81
    @@ "LARYNGEAL MASKS" :> 82 @@ "NASA OXYGEN CANNULA" :> 83
    @@ "NASOPHARINGEAL AIRWAYS" :> 84 @@ "PHARINGEAL AIRWAYS" :> 85
    @@ "PRESSURE TRANSDUCERS" :> 86 @@ "RESPIRATORY CIRCUITS" :> 87
    @@ "RESPIRATORY MASKS" :> 88 @@ "STOMACH TUBES" :> 89
    @@ "SUCTION TUBE + JANKAUER HANDLE" :> 90 @@ "TRACHEOSTOMY" :> 91
    @@ "URINE BAGS" :> 92 @@ "DISPOSABLE NON-WOVEN OPERATION ROOMS" :> 93

\* The id map_category_to_id falls back to for an unknown name (line 117).
DefaultCategoryId == 59

\* The table of parse_divisions, lines 49-60.
hardcoded_divisions ==
    "INJECTION" :> 48 @@ "DIABETES CARE" :> 49 @@ "INFUSION" :> 47
    @@ "DIAGNOSTIC" :> 50 @@ "PROTECTION" :> 56 @@ "WOUND MANAGEMENT" :> 54
    @@ "UROLOGY" :> 53 @@ "ANESTHESIA / RESPIRATORY" :> 58 @@ "NUTRITION" :> 52
    @@ "HEMODIALYSIS" :> 51

\* Position of the first entry of a fetched mapping whose name equals the
\* given one without regard to case, 0 when there is none.
first_match(mapping, name) ==
    LET hits == {i \in 1..Len(mapping) : Upper(mapping[i].name) = Upper(name)}
    IN IF hits = {} THEN 0 ELSE CHOOSE i \in hits : \A j \in hits : i <= j

\* map_category_to_id: (id, found).
map_category_to_id(category_name, cmap) ==
    LET hit == first_match(cmap, category_name)
    IN IF hit # 0
       THEN [id |-> cmap[hit].id, found |-> TRUE]
       ELSE [id |-> TableGet(category_mapping, Join(Upper(category_name)),
                             DefaultCategoryId),
             found |-> FALSE]

\* mapping.get(str(id), default): the name filed under an id.
name_of_id(mapping, id, default) ==
    IF \E i \in 1..Len(mapping) : mapping[i].id = id
    THEN mapping[CHOOSE i \in 1..Len(mapping) : mapping[i].id = id].name
    ELSE default

\* parse_divisions for one column: the id found, or the name as missing.
parse_division(division, dmap) ==
    LET hit   == first_match(dmap, division)
        fixed == TableGet(hardcoded_divisions, Join(Upper(division)), 0)
    IN IF division = <<>> \/ Strip(division) = <<>>
       THEN [ids |-> <<>>, missing |-> <<>>]
       ELSE IF hit # 0 THEN [ids |-> <<dmap[hit].id>>, missing |-> <<>>]
       ELSE IF fixed # 0 THEN [ids |-> <<fixed>>, missing |-> <<>>]
       ELSE [ids |-> <<>>, missing |-> <<division>>]

parse_divisions(division1, division2, division3, dmap) ==
    LET d1 == parse_division(division1, dmap)
        d2 == parse_division(division2, dmap)
        d3 == parse_division(division3, dmap)
    IN [ids     |-> d1.ids \o d2.ids \o d3.ids,
        missing |-> d1.missing \o d2.missing \o d3.missing]

\* str(cell) if pd.notna(cell) else "".
CellText(cell) == IF cell = NaN THEN <<>> ELSE cell

NoCategoryName == <<"None">>

initial_validation_info ==
    [has_category |-> FALSE, has_divisions |-> FALSE,
     missing_category_id |-> NoCategoryName, missing_division_ids |-> <<>>]

\* convert_row_to_strapi_format: (product or None, validation_info).
convert_row_to_strapi_format(row, cmap, dmap) ==
    LET category_name    == CellText(row.category)
        reference_string == CellText(row.reference)
        product_name     == CellText(row.name)
        nan              == <<"n", "a", "n">>
        cat              == map_category_to_id(category_name, cmap)
        name_from_map    == IF cat.found
                            THEN name_of_id(cmap, cat.id, category_name)
                            ELSE category_name
        divs             == parse_divisions(CellText(row.division),
                                            CellText(row.division_1),
                                            CellText(row.division_2), dmap)
    IN IF \/ reference_string = <<>> \/ reference_string = nan
          \/ product_name = <<>> \/ product_name = nan
       THEN [product |-> VNone, info |-> initial_validation_info]
       ELSE [product |->
               [data |->
                 [name                 |-> product_name,
                  referenceString      |-> reference_string,
                  category             |-> VInt(cat.id),
                  categoryName         |-> name_from_map,
                  divisions            |-> divs.ids,
                  divisionNames        |->
                      [i \in 1..Len(divs.ids) |->
                          name_of_id(dmap, divs.ids[i],
                              <<"D", "i", "v", "i", "s", "i", "o", "n", " ">>
                                  \o Decimal(divs.ids[i]))],
                  standard             |-> VStr("???"),
                  description          |-> VStr(""),
                  tableInMd            |-> VStr(""),
                  images               |-> VList(<<>>),
                  PackagingInformation |-> DefaultPackaging]],
             info |->
               [has_category         |-> cat.found,
                has_divisions        |-> Len(divs.ids) > 0,
                missing_category_id  |-> IF cat.found THEN NoCategoryName
                                         ELSE category_name,
                missing_division_ids |-> divs.missing]]

\* Category and division names of the modelled workbooks and mappings.
Gloves == <<"G", "l", "o", "v", "e", "s">>
Masks == <<"M", "a", "s", "k", "s">>
Other == <<"O", "t", "h", "e", "r">>
Injection == <<"I", "n", "j", "e", "c", "t", "i", "o", "n">>
Bogus == <<"B", "o", "g", "u", "s">>

CatRows ==
    {[category |-> c, reference |-> rn[1], name |-> rn[2],
      division |-> d[1], division_1 |-> d[2], division_2 |-> NaN] :
        c  \in {NaN, Gloves, Masks, Other},
        rn \in {<<<<"1", ".", "1">>, <<"P">>>>, <<NaN, <<"P">>>>, <<R12, NaN>>},
        d  \in {<<NaN, NaN>>, <<Injection, NaN>>, <<Injection, Bogus>>}}

CatSheets == UNION {[1..n -> CatRows] : n \in 1..MaxCatRows}

\* What load_mappings can return: nothing when a file is missing, else the
\* two fetched mappings (names as the CMS spells them).
FetchedMappings ==
    {[categories |-> <<>>, divisions |-> <<>>],
     [categories |-> <<[id |-> 7, name |-> Upper(Gloves)], [id |-> 9, name |-> Masks]>>,
      divisions  |-> <<[id |-> 5, name |-> Upper(Injection)]>>],
     [categories |-> <<[id |-> 9, name |-> Masks]>>,
      divisions  |-> <<>>]}

\* main() line 214: category and division columns are forward-filled.
cat_forward_fill(rows) ==
    LET c  == ffill(Column(rows, "category"))
        d0 == ffill(Column(rows, "division"))
        d1 == ffill(Column(rows, "division_1"))
        d2 == ffill(Column(rows, "division_2"))
    IN [i \in 1..Len(rows) |->
          [rows[i] EXCEPT !.category = c[i], !.division = d0[i],
                          !.division_1 = d1[i], !.division_2 = d2[i]]]

CatInit ==
    /\ cat_pc = "load"
    /\ cat_df \in CatSheets
    /\ categories_map = <<>>
    /\ divisions_map = <<>>
    /\ cat_i = 0
    /\ converted = [product |-> VNone, info |-> initial_validation_info]
    /\ cat_products = <<>>
    /\ skipped = 0
    /\ validation_results = <<>>

\* main() lines 205-218: load the mappings, read and forward-fill the sheet.
LoadMappings ==
    /\ cat_pc = "load"
    /\ \E m \in FetchedMappings :
         /\ categories_map' = m.categories
         /\ divisions_map' = m.divisions
    /\ cat_df' = cat_forward_fill(cat_df)
    /\ cat_pc' = "rows"
    /\ UNCHANGED <<cat_i, converted, cat_products, skipped, validation_results>>
    /\ UNCHANGED notCat

\* One iteration of the conversion loop, lines 226-239.
ConvertRow ==
    /\ cat_pc = "rows"
    /\ cat_i < Len(cat_df)
    /\ LET out == convert_row_to_strapi_format(cat_df[cat_i + 1],
                                               categories_map, divisions_map)
       IN /\ converted' = out
          /\ IF out.product # VNone
             THEN /\ cat_products' = Append(cat_products, out.product)
                  /\ UNCHANGED <<skipped, validation_results>>
             ELSE /\ skipped' = skipped + 1
                  /\ validation_results' =
                       Append(validation_results,
                              [info |-> out.info, row_index |-> cat_i + 1])
                  /\ UNCHANGED cat_products
    /\ cat_i' = cat_i + 1
    /\ UNCHANGED <<cat_pc, categories_map, divisions_map, cat_df>>
    /\ UNCHANGED notCat

\* main() lines 241-246: products.json is written.
WriteJson ==
    /\ cat_pc = "rows"
    /\ cat_i = Len(cat_df)
    /\ cat_pc' = "done"
    /\ UNCHANGED <<categories_map, divisions_map, cat_df, cat_i, converted,
                   cat_products, skipped, validation_results>>
    /\ UNCHANGED notCat

CatNext ==
    \/ LoadMappings
    \/ ConvertRow
    \/ WriteJson

(***************************************************************************)
(* utils/strapi.py                                                         *)
(***************************************************************************)
MAX_RETRIES == 3

StrapiOps ==
    {"find_by_name", "find_by_reference", "create", "update", "delete"}

\* What one requests.request can do: answer with some status (and, for a
\* query, with or without a hit), or raise a RequestException (network
\* error, timeout after TIMEOUT seconds).
HttpResponses ==
    [t : {"response"}, status : {200, 201, 204, 400, 404, 500}, found : BOOLEAN]

RequestException == [t |-> "error"]

RequestOutcomes == HttpResponses \cup {RequestException}

\* Mutant of make_request_step: a 5xx answer is retried like a transport
\* failure.
make_request_step_retry_5xx(n, outcome) ==
    IF outcome.t = "response" /\ outcome.status < 500
    THEN [pc |-> "returned", attempt |-> n, response |-> outcome]
    ELSE IF n = MAX_RETRIES - 1
    THEN [pc |-> "returned", attempt |-> n, response |-> VNone]
    ELSE [pc |-> "request", attempt |-> n + 1, response |-> VNone]

\* One iteration of the loop of _make_request, lines 48-56: a response is
\* returned at once; a RequestException ends the call with None on the
\* last attempt and starts the next attempt otherwise.
make_request_step(n, outcome) ==
    IF outcome.t = "response"
    THEN [pc |-> "returned", attempt |-> n, response |-> outcome]
    ELSE IF n = MAX_RETRIES - 1
    THEN [pc |-> "returned", attempt |-> n, response |-> VNone]
    ELSE [pc |-> "request", attempt |-> n + 1, response |-> VNone]

\* bool(response) of requests: true for a status below 400.
ResponseOk(r) == r # VNone /\ r.status < 400

\* Mutant of strapi_result: any status below 400 counts as success.
strapi_result_any_2xx(op, r) ==
    IF op \in {"find_by_name", "find_by_reference"}
    THEN IF ~ResponseOk(r) \/ r.status # 200 THEN VNone
         ELSE IF r.found THEN [t |-> "data"] ELSE VNone
    ELSE IF op \in {"create", "update"}
    THEN IF ResponseOk(r) THEN [t |-> "data"] ELSE VNone
    ELSE [t |-> "bool", b |-> ResponseOk(r)]

\* What the public functions make of the response, lines 60-163.
strapi_result(op, r) ==
    IF op \in {"find_by_name", "find_by_reference"}
    THEN IF ~ResponseOk(r) \/ r.status # 200 THEN VNone
         ELSE IF r.found THEN [t |-> "data"] ELSE VNone
    ELSE IF op \in {"create", "update"}
    THEN IF ResponseOk(r) /\ r.status \in {200, 201} THEN [t |-> "data"]
         ELSE VNone
    ELSE [t |-> "bool", b |-> ResponseOk(r) /\ r.status \in {200, 204}]

StrapiInit ==
    /\ req_pc = "idle"
    /\ req_op = "none"
    /\ attempt = 0
    /\ req_log = <<>>
    /\ response = VNone
    /\ op_result = VNone

\* A public function is called and enters _make_request.
CallStrapi ==
    /\ req_pc = "idle"
    /\ \E op \in StrapiOps : req_op' = op
    /\ attempt' = 0
    /\ req_log' = <<>>
    /\ response' = VNone
    /\ req_pc' = "request"
    /\ UNCHANGED op_result
    /\ UNCHANGED notReq

\* One attempt of _make_request.
MakeRequestAttempt ==
    /\ req_pc = "request"
    /\ attempt < MAX_RETRIES
    /\ \E outcome \in RequestOutcomes :
         LET next == make_request_step(attempt, outcome)
         IN /\ req_log' = Append(req_log, outcome)
            /\ req_pc' = next.pc
            /\ attempt' = next.attempt
            /\ response' = next.response
    /\ UNCHANGED <<req_op, op_result>>
    /\ UNCHANGED notReq

\* _make_request has returned; the public function computes its result.
ReturnResult ==
    /\ req_pc = "returned"
    /\ op_result' = strapi_result(req_op, response)
    /\ req_pc' = "idle"
    /\ UNCHANGED <<req_op, attempt, req_log, response>>
    /\ UNCHANGED notReq

StrapiNext ==
    \/ CallStrapi
    \/ MakeRequestAttempt
    \/ ReturnResult

(***************************************************************************)
(* uploaders/batch_upload_products.py                                      *)
(***************************************************************************)
\* Largest number of products in products.json.
MaxProducts == 3

\* Number of times the script is run against the same remote collection.
MaxRuns == 2

\* Batch sizes the operator enters.
BatchSizes == {1, 2}

\* The k-th product of products.json; every third product has no name.
CatalogProduct(k) ==
    IF k % 3 = 0
    THEN [data |-> [referenceString |-> "R" \o ToString(k)]]
    ELSE [data |-> [name |-> "P" \o ToString(k),
                    referenceString |-> "R" \o ToString(k)]]

UploadCatalogs == {[k \in 1..n |-> CatalogProduct(k)] : n \in 0..MaxProducts}

\* dict.get(key, default) on the "data" component of a product.
DataGet(product, key, default) ==
    IF "data" \in DOMAIN product /\ key \in DOMAIN product.data
    THEN product.data[key] ELSE default

\* What requests.post can do against a collection holding the given
\* records: the server creates the record and answers 200 or 201 with the
\* new id, it refuses with 400, or the call raises (no connection, timeout).
PostOutcomes(records) ==
    {[t |-> "response", status |-> st, id |-> Len(records) + 1, text |-> "ok"] :
        st \in {200, 201}}
    \cup {[t |-> "response", status |-> 400, id |-> 0, text |-> "Bad Request"],
          [t |-> "error", status |-> 0, id |-> 0, text |-> "timed out"]}

\* Mutant of upload_requests: the reference is looked up before the POST.
upload_requests_lookup_first(product) == <<"GET", "POST">>

\* The HTTP requests upload_single_product issues for a product, line 46:
\* one POST, whatever the remote collection holds.
upload_requests(product) == <<"POST">>

\* The remote collection after a request: a POST the server accepted has
\* added a record under the id of the answer.
remote_after(records, method, product, outcome) ==
    IF method = "POST" /\ outcome.t = "response" /\ outcome.status \in {200, 201}
    THEN Append(records, [id |-> outcome.id,
                          reference |-> DataGet(product, "referenceString",
                                                "No Reference")])
    ELSE records

\* Mutant of upload_single_product: the failure result of an HTTP error
\* carries the status only, not the response body.
upload_single_product_no_body(product, outcome) ==
    LET product_name == DataGet(product, "name", "Unknown")
        reference == DataGet(product, "referenceString", "No Reference")
    IN IF outcome.t = "response"
       THEN IF outcome.status \in {200, 201}
            THEN [success |-> TRUE, product_id |-> outcome.id,
                  product_name |-> product_name, reference |-> reference]
            ELSE [success |-> FALSE, product_name |-> product_name,
                  reference |-> reference,
                  error |-> "HTTP " \o ToString(outcome.status),
                  response |-> ""]
       ELSE [success |-> FALSE, product_name |-> product_name,
             reference |-> reference,
             error |-> "Network error: " \o outcome.text,
             response |-> "None"]

\* upload_single_product, lines 35-74: the result dict for the outcome of
\* the POST.
upload_single_product(product, outcome) ==
    LET product_name == DataGet(product, "name", "Unknown")
        reference == DataGet(product, "referenceString", "No Reference")
    IN IF outcome.t = "response"
       THEN IF outcome.status \in {200, 201}
            THEN [success |-> TRUE, product_id |-> outcome.id,
                  product_name |-> product_name, reference |-> reference]
            ELSE [success |-> FALSE, product_name |-> product_name,
                  reference |-> reference,
                  error |-> "HTTP " \o ToString(outcome.status) \o ": "
                              \o outcome.text,
                  response |-> outcome.text]
       ELSE [success |-> FALSE, product_name |-> product_name,
             reference |-> reference,
             error |-> "Network error: " \o outcome.text,
             response |-> "None"]

\* upload_batch, line 78.
end_index(start, size, total) == IF start + size < total THEN start + size ELSE total

\* Mutant of more_batches: the operator is asked after the last batch too.
more_batches_always_ask(start, size, total) == start + size <= total

\* run_upload, line 198: batches remain after the one that started at start.
more_batches(start, size, total) == start + size < total

\* response.lower() == 'y'
Answers == {"y", "Y", "n"}

answered_yes(answer) == answer \in {"y", "Y"}

UploadInit ==
    /\ up_pc = "start"
    /\ up_run = 1
    /\ up_catalog \in UploadCatalogs
    /\ batch_size \in BatchSizes
    /\ start_index = 0
    /\ up_i = 0
    /\ uploaded_products = <<>>
    /\ failed_products = <<>>
    /\ request_log = <<>>
    /\ confirm_log = <<>>
    /\ remote = <<>>
    /\ saved_uploaded = VNone
    /\ saved_failed = VNone

\* run_upload, lines 166-191: an empty catalog ends the run; otherwise the
\* operator is asked whether to proceed.
StartUpload ==
    /\ up_pc = "start"
    /\ IF up_catalog = <<>>
       THEN up_pc' = "cancelled"
       ELSE \E answer \in Answers :
              up_pc' = IF answered_yes(answer) THEN "batch" ELSE "cancelled"
    /\ start_index' = 0
    /\ up_i' = 0
    /\ UNCHANGED <<up_run, up_catalog, batch_size, uploaded_products,
                   failed_products, request_log, confirm_log, remote,
                   saved_uploaded, saved_failed>>
    /\ UNCHANGED notUpload

\* One iteration of the loop of upload_batch, lines 87-114.
UploadProduct ==
    /\ up_pc = "batch"
    /\ start_index + up_i < end_index(start_index, batch_size, Len(up_catalog))
    /\ LET global_index == start_index + up_i
           product == up_catalog[global_index + 1]
           methods == upload_requests(product)
       IN \E outcome \in PostOutcomes(remote) :
            LET res == upload_single_product(product, outcome)
            IN /\ request_log' = request_log \o
                     [k \in 1..Len(methods) |->
                        [index |-> global_index, method |-> methods[k],
                         outcome |-> outcome]]
               /\ remote' = remote_after(remote, methods[Len(methods)],
                                         product, outcome)
               /\ IF res.success
                  THEN /\ uploaded_products' = Append(uploaded_products,
                              [product_id |-> res.product_id,
                               product_name |-> res.product_name,
                               reference |-> res.reference])
                       /\ UNCHANGED failed_products
                  ELSE /\ failed_products' = Append(failed_products,
                              [product_name |-> res.product_name,
                               reference |-> res.reference,
                               error |-> res.error,
                               product_data |-> product])
                       /\ UNCHANGED uploaded_products
    /\ up_i' = up_i + 1
    /\ UNCHANGED <<up_pc, up_run, up_catalog, batch_size, start_index,
                   confirm_log, saved_uploaded, saved_failed>>
    /\ UNCHANGED notUpload

\* The batch is complete and batches remain.
BatchComplete ==
    /\ up_pc = "batch"
    /\ start_index + up_i = end_index(start_index, batch_size, Len(up_catalog))
    /\ more_batches(start_index, batch_size, Len(up_catalog))

\* run_upload, lines 198-202: the operator answers "Continue with next
\* batch?"; anything but y ends the loop.
ConfirmNextBatch ==
    /\ BatchComplete
    /\ \E answer \in Answers :
         /\ confirm_log' = Append(confirm_log,
               [after |-> start_index + up_i, answer |-> answer])
         /\ IF answered_yes(answer)
            THEN /\ start_index' = start_index + batch_size
                 /\ up_i' = 0
                 /\ UNCHANGED up_pc
            ELSE /\ up_pc' = "save"
                 /\ UNCHANGED <<start_index, up_i>>
    /\ UNCHANGED <<up_run, up_catalog, batch_size, uploaded_products,
                   failed_products, request_log, remote, saved_uploaded,
                   saved_failed>>
    /\ UNCHANGED notUpload

\* run_upload, line 199: input() raises (EOFError when standard input is
\* exhausted, KeyboardInterrupt); nothing catches it and the run ends.
PromptInterrupted ==
    /\ BatchComplete
    /\ up_pc' = "aborted"
    /\ UNCHANGED <<up_run, up_catalog, batch_size, start_index, up_i,
                   uploaded_products, failed_products, request_log,
                   confirm_log, remote, saved_uploaded, saved_failed>>
    /\ UNCHANGED notUpload

\* The last batch is complete: the loop ends without a question.
LastBatchDone ==
    /\ up_pc = "batch"
    /\ start_index + up_i = end_index(start_index, batch_size, Len(up_catalog))
    /\ ~more_batches(start_index, batch_size, Len(up_catalog))
    /\ up_pc' = "save"
    /\ UNCHANGED <<up_run, up_catalog, batch_size, start_index, up_i,
                   uploaded_products, failed_products, request_log,
                   confirm_log, remote, saved_uploaded, saved_failed>>
    /\ UNCHANGED notUpload

\* save_progress, lines 118-144: each list is written when it is not empty.
SaveProgress ==
    /\ up_pc = "save"
    /\ saved_uploaded' =
         IF uploaded_products # <<>> THEN VList(uploaded_products) ELSE VNone
    /\ saved_failed' =
         IF failed_products # <<>> THEN VList(failed_products) ELSE VNone
    /\ up_pc' = "done"
    /\ UNCHANGED <<up_run, up_catalog, batch_size, start_index, up_i,
                   uploaded_products, failed_products, request_log,
                   confirm_log, remote>>
    /\ UNCHANGED notUpload

\* After a run that returned, the script is started again on the same
\* products.json: a new BatchUploader, the same remote collection.
RunAgain ==
    /\ up_pc = "done"
    /\ up_run < MaxRuns
    /\ up_run' = up_run + 1
    /\ up_pc' = "start"
    /\ start_index' = 0
    /\ up_i' = 0
    /\ uploaded_products' = <<>>
    /\ failed_products' = <<>>
    /\ request_log' = <<>>
    /\ confirm_log' = <<>>
    /\ saved_uploaded' = VNone
    /\ saved_failed' = VNone
    /\ UNCHANGED <<up_catalog, batch_size, remote>>
    /\ UNCHANGED notUpload

UploadNext ==
    \/ StartUpload
    \/ UploadProduct
    \/ ConfirmNextBatch
    \/ PromptInterrupted
    \/ LastBatchDone
    \/ SaveProgress
    \/ RunAgain

(***************************************************************************)
(* core/cli_slide_driver.py: class StrapiUtils                             *)
(***************************************************************************)
DriverOps == {"create_product", "update_product", "delete_product"}

\* The id the server reports for a created product.
CreatedId == 7

PyBool(b) == [t |-> "bool", b |-> b]

\* What one request of StrapiUtils can do; the body of an answer to a
\* query plays no part here.
DriverOutcomes == {o \in RequestOutcomes : o.t = "response" => ~o.found}

\* StrapiUtils.create_product / update_product / delete_product, lines
\* 103-144: one request without retry; an exception is caught and gives the
\* failure value.
strapi_utils_result(op, outcome) ==
    IF op = "create_product"
    THEN IF outcome.t = "response" /\ outcome.status \in {200, 201}
         THEN VInt(CreatedId) ELSE VNone
    ELSE IF op = "update_product"
    THEN PyBool(outcome.t = "response" /\ outcome.status \in {200, 201})
    ELSE PyBool(outcome.t = "response" /\ outcome.status \in {200, 204})

DriverInit ==
    /\ drv_op = "none"
    /\ drv_outcome = VNone
    /\ drv_result = VNone

\* A method of StrapiUtils is called and returns.
DriverCall ==
    /\ \E op \in DriverOps, outcome \in DriverOutcomes :
         /\ drv_op' = op
         /\ drv_outcome' = outcome
         /\ drv_result' = strapi_utils_result(op, outcome)
    /\ UNCHANGED notDriver

ClientNext ==
    \/ StrapiNext
    \/ DriverCall

(***************************************************************************)
(* core/excel_to_json.py                                                   *)
(***************************************************************************)
\* Largest number of rows in the workbook.
MaxJsonRows == 2

\* Cells as pandas hands them over: NaN for a blank cell, an int, a float
\* (a numeric column with a blank cell is read as float64), or text.
JsNaN == [t |-> "nan"]

VFloat(n) == [t |-> "float", n |-> n]

\* A divisions cell: text holding comma-separated ids, or text that is not
\* a list of integers.
DivText(ids) == [t |-> "ids", ids |-> ids]

BadDivText == [t |-> "text"]

\* bool(cell): NaN is truthy, 0 and 0.0 are falsy.
CellTruthy(cell) ==
    CASE cell.t = "nan" -> TRUE
      [] cell.t \in {"int", "float"} -> cell.n # 0
      [] cell.t = "str" -> cell.s # ""
      [] OTHER -> TRUE

\* str(cell)
CellStr(cell) ==
    CASE cell.t = "nan" -> "nan"
      [] cell.t = "int" -> ToString(cell.n)
      [] cell.t = "float" -> ToString(cell.n) \o ".0"
      [] cell.t = "str" -> cell.s

\* int(cell) raises ValueError for text that is not a number.
IntRaises(cell) == cell.t = "str"

CategoryCells == {JsNaN, VInt(59), VInt(99), VInt(0), VStr("A1")}

DivisionCells == {JsNaN, DivText(<<1>>), DivText(<<1, 9>>), BadDivText}

JsonRows ==
    [category : CategoryCells, divisions : DivisionCells,
     name : {"Item"}, referenceString : {"1.1"}]

JsonSheets == UNION {[1..n -> JsonRows] : n \in 1..MaxJsonRows}

\* The keys of categories_map.json and divisions_map.json.
JsonCategoryMaps == {{"59"}, {"59", "A1"}}

JsonDivisionMap == {"1"}

\* pd.read_excel: a column of numbers with a blank cell is float64.
read_category_column(rows) ==
    LET numeric == \A i \in 1..Len(rows) : rows[i].category.t \in {"nan", "int"}
        blank == \E i \in 1..Len(rows) : rows[i].category = JsNaN
    IN [i \in 1..Len(rows) |->
          IF numeric /\ blank /\ rows[i].category.t = "int"
          THEN [rows[i] EXCEPT !.category = VFloat(rows[i].category.n)]
          ELSE rows[i]]

\* fillna(method='ffill') on category and divisions, lines 176-178.
RECURSIVE js_forward_fill(_)
js_forward_fill(rows) ==
    IF Len(rows) <= 1 THEN rows
    ELSE LET front == js_forward_fill(SubSeq(rows, 1, Len(rows) - 1))
             prev == front[Len(front)]
             r == rows[Len(rows)]
         IN Append(front,
               [r EXCEPT !.category = IF r.category = JsNaN THEN prev.category
                                      ELSE r.category,
                         !.divisions = IF r.divisions = JsNaN THEN prev.divisions
                                       ELSE r.divisions])

\* parse_divisions, lines 56-65.
js_parse_divisions(cell) ==
    IF cell = JsNaN THEN <<>>
    ELSE IF cell.t = "ids" THEN cell.ids
    ELSE <<>>

\* get_division_names, lines 68-78: the ids that are not in the mapping.
js_missing_division_ids(division_ids, dmap) ==
    SelectSeq(division_ids, LAMBDA d : ToString(d) \notin dmap)

\* process_row, lines 81-145: the product (or None) and the validation
\* info.  int(category_id) raising is caught on line 143.
process_row(row, cmap, dmap) ==
    LET division_ids == js_parse_divisions(row.divisions)
        missing_division_ids == js_missing_division_ids(division_ids, dmap)
        category_id == row.category
        category_found == CellTruthy(category_id) /\ CellStr(category_id) \in cmap
        info == [has_category |-> category_found,
                 has_divisions |-> Len(division_ids) > 0,
                 missing_category_id |->
                     IF CellTruthy(category_id) /\ ~category_found
                     THEN category_id ELSE VNone,
                 missing_division_ids |-> missing_division_ids]
    IN IF ~category_found \/ missing_division_ids # <<>>
       THEN [product |-> VNone, info |-> info]
       ELSE IF IntRaises(category_id)
       THEN [product |-> VNone, info |-> info]
       ELSE [product |-> [data |-> [name |-> row.name,
                                    referenceString |-> row.referenceString,
                                    category |-> category_id.n,
                                    divisions |-> division_ids]],
             info |-> info]

\* `if result["missing_category_id"]`, line 220.
js_category_listed(info) ==
    info.missing_category_id # VNone /\ CellTruthy(info.missing_category_id)

JsonInit ==
    /\ js_pc = "read"
    /\ js_categories_map \in JsonCategoryMaps
    /\ js_divisions_map = JsonDivisionMap
    /\ js_df \in JsonSheets
    /\ js_i = 0
    /\ js_products = <<>>
    /\ js_skipped = 0
    /\ js_validation_results = <<>>
    /\ missing_categories = <<>>
    /\ missing_divisions = <<>>

\* main(), lines 168-182: read the sheet and forward-fill.
JsonRead ==
    /\ js_pc = "read"
    /\ js_df' = js_forward_fill(read_category_column(js_df))
    /\ js_pc' = "rows"
    /\ UNCHANGED <<js_categories_map, js_divisions_map, js_i, js_products,
                   js_skipped, js_validation_results, missing_categories,
                   missing_divisions>>
    /\ UNCHANGED notJson

\* One iteration of the loop of main(), lines 189-197.
JsonRow ==
    /\ js_pc = "rows"
    /\ js_i < Len(js_df)
    /\ LET out == process_row(js_df[js_i + 1], js_categories_map,
                              js_divisions_map)
           info == out.info
       IN IF out.product # VNone
          THEN /\ js_products' = Append(js_products, out.product)
               /\ UNCHANGED <<js_skipped, js_validation_results>>
          ELSE /\ js_skipped' = js_skipped + 1
               /\ js_validation_results' =
                     Append(js_validation_results,
                            [row_index |-> js_i + 1, info |-> info])
               /\ UNCHANGED js_products
    /\ js_i' = js_i + 1
    /\ UNCHANGED <<js_pc, js_categories_map, js_divisions_map, js_df,
                   missing_categories, missing_divisions>>
    /\ UNCHANGED notJson

\* main(), lines 199-249: write the products and build the validation
\* summary.
JsonSummary ==
    /\ js_pc = "rows"
    /\ js_i = Len(js_df)
    /\ missing_categories' =
          LET listed == SelectSeq(js_validation_results,
                                  LAMBDA v : js_category_listed(v.info))
          IN [m \in 1..Len(listed) |->
                [row |-> listed[m].row_index,
                 category_id |-> listed[m].info.missing_category_id]]
    /\ missing_divisions' =
          LET listed == SelectSeq(js_validation_results,
                                  LAMBDA v : v.info.missing_division_ids # <<>>)
          IN [m \in 1..Len(listed) |->
                [row |-> listed[m].row_index,
                 division_ids |-> listed[m].info.missing_division_ids]]
    /\ js_pc' = "done"
    /\ UNCHANGED <<js_categories_map, js_divisions_map, js_df, js_i,
                   js_products, js_skipped, js_validation_results>>
    /\ UNCHANGED notJson

JsonNext ==
    \/ JsonRead
    \/ JsonRow
    \/ JsonSummary

\* The idle state of a pipeline that is not running.
MergeIdle ==
    /\ merger_pc = "idle"
    /\ input_products = <<>>
    /\ products_dict = <<>>
    /\ product_keys = <<>>
    /\ slide_idx = 0
    /\ payload = NoPayload
    /\ unmatched_slides = <<>>
    /\ updated_count = 0
    /\ incomplete_products = <<>>
    /\ enriched_products = <<>>

ExcelIdle ==
    /\ xl_pc = "idle"
    /\ sheet = <<>>
    /\ only_ref = NoArg
    /\ limit_variations = VNone
    /\ df = <<>>
    /\ row_i = 0
    /\ products = <<>>
    /\ result = <<>>

SlugIdle ==
    /\ slug_pc = "idle"
    /\ data = <<>>
    /\ limit = VNone
    /\ existing_slugs = {}
    /\ slug_i = 0
    /\ updated_products = <<>>

CatIdle ==
    /\ cat_pc = "idle"
    /\ categories_map = <<>>
    /\ divisions_map = <<>>
    /\ cat_df = <<>>
    /\ cat_i = 0
    /\ converted = [product |-> VNone, info |-> initial_validation_info]
    /\ cat_products = <<>>
    /\ skipped = 0
    /\ validation_results = <<>>

StrapiIdle ==
    /\ req_pc = "off"
    /\ req_op = "none"
    /\ attempt = 0
    /\ req_log = <<>>
    /\ response = VNone
    /\ op_result = VNone

UploadIdle ==
    /\ up_pc = "off"
    /\ up_run = 0
    /\ up_catalog = <<>>
    /\ batch_size = 0
    /\ start_index = 0
    /\ up_i = 0
    /\ uploaded_products = <<>>
    /\ failed_products = <<>>
    /\ request_log = <<>>
    /\ confirm_log = <<>>
    /\ remote = <<>>
    /\ saved_uploaded = VNone
    /\ saved_failed = VNone

DriverIdle ==
    /\ drv_op = "none"
    /\ drv_outcome = VNone
    /\ drv_result = VNone

JsonIdle ==
    /\ js_pc = "idle"
    /\ js_categories_map = {}
    /\ js_divisions_map = {}
    /\ js_df = <<>>
    /\ js_i = 0
    /\ js_products = <<>>
    /\ js_skipped = 0
    /\ js_validation_results = <<>>
    /\ missing_categories = <<>>
    /\ missing_divisions = <<>>

SessionIdle ==
    /\ ss_pc = "off"
    /\ ss_phase = "earlier"
    /\ total_slides = 0
    /\ start_slide = 0
    /\ end_slide = 0
    /\ slide_number = 0
    /\ ss_entries = <<>>
    /\ progress_file = <<>>
    /\ ss_loaded = 0
    /\ ss_resumed = FALSE
    /\ ss_last = VNone
    /\ ss_exit = "none"

HeadersIdle ==
    /\ columns = <<>>
    /\ hdr_i = 0
    /\ hdr_canon = VNone
    /\ rename = <<>>

ParseIdle ==
    /\ pr_pc = "off"
    /\ pr_cell = NaN
    /\ parsed = VNone
    /\ reparsed = VNone

EnrichIdle ==
    /\ en_pc = "off"
    /\ existing_products = <<>>
    /\ en_catalog = <<>>
    /\ en_df = <<>>
    /\ en_i = 0
    /\ variations_by_ref = <<>>
    /\ products_not_found = {}
    /\ en_output = VNone

RaceIdle ==
    /\ products_json = <<>>
    /\ rc_original = <<>>
    /\ sync_pc = "off"
    /\ sync_products = VNone
    /\ ids_pc = "off"
    /\ ids_products = VNone
    /\ products_backup = VNone
    /\ rc_log = <<>>

ToolsIdle ==
    SessionIdle /\ HeadersIdle /\ ParseIdle /\ EnrichIdle /\ RaceIdle

OthersIdle == UploadIdle /\ DriverIdle /\ JsonIdle /\ ToolsIdle

PipelinesIdle ==
    /\ MergeIdle /\ ExcelIdle /\ SlugIdle /\ CatIdle /\ StrapiIdle
    /\ UploadIdle /\ DriverIdle /\ JsonIdle

(***************************************************************************)
(* Specifications: one per pipeline.  Each starts its own pipeline and     *)
(* holds the variables of the others at their idle values.                 *)
(***************************************************************************)
InitMerge == MergeInit /\ ExcelIdle /\ SlugIdle /\ CatIdle /\ StrapiIdle /\ OthersIdle
SpecMerge == InitMerge /\ [][MergeNext]_vars

InitExcel == ExcelInit /\ MergeIdle /\ SlugIdle /\ CatIdle /\ StrapiIdle /\ OthersIdle
SpecExcel == InitExcel /\ [][ExcelNext]_vars

InitSlug == SlugInit /\ MergeIdle /\ ExcelIdle /\ CatIdle /\ StrapiIdle /\ OthersIdle
SpecSlug == InitSlug /\ [][SlugNext]_vars

InitCat == CatInit /\ MergeIdle /\ ExcelIdle /\ SlugIdle /\ StrapiIdle /\ OthersIdle
SpecCat == InitCat /\ [][CatNext]_vars

\* Every request ends within TIMEOUT seconds, with an answer or with an
\* exception, so an attempt that is due is eventually made.
InitStrapi == StrapiInit /\ MergeIdle /\ ExcelIdle /\ SlugIdle /\ CatIdle
              /\ OthersIdle
SpecStrapi ==
    InitStrapi /\ [][StrapiNext]_vars /\ WF_vars(MakeRequestAttempt)

InitUpload ==
    /\ UploadInit /\ MergeIdle /\ ExcelIdle /\ SlugIdle /\ CatIdle
    /\ StrapiIdle /\ DriverIdle /\ JsonIdle /\ ToolsIdle
SpecUpload == InitUpload /\ [][UploadNext]_vars

InitClient ==
    /\ StrapiInit /\ DriverInit /\ MergeIdle /\ ExcelIdle /\ SlugIdle
    /\ CatIdle /\ UploadIdle /\ JsonIdle /\ ToolsIdle
SpecClient == InitClient /\ [][ClientNext]_vars

InitJson ==
    /\ JsonInit /\ MergeIdle /\ ExcelIdle /\ SlugIdle /\ CatIdle
    /\ StrapiIdle /\ UploadIdle /\ DriverIdle /\ ToolsIdle
SpecJson == InitJson /\ [][JsonNext]_vars

(***************************************************************************)
(* Properties of the slide merge (SpecMerge).                              *)
(***************************************************************************)

\* A value is empty when it is None, "", [] or {}.
IsEmptyValue(v) == v \in {VNone, VStr(""), VList(<<>>), VDict(<<>>)}

\* The step just taken merged the slide in payload' into a catalog product.
MergeStep == updated_count' = updated_count + 1

MergedRef == payload'.data.referenceString.s

\* C1: in every merge, each of the five mergeable fields keeps the existing
\* value when that value is non-empty, takes the slide value when the
\* existing value is empty and the slide value is not, and changes in no
\* other case.
C1_MergePrecedence ==
    [][MergeStep =>
        \A f \in MergeFields :
            LET old   == Get(products_dict[MergedRef], f)
                new   == Get(products_dict'[MergedRef], f)
                slide == Get(payload'.data, f)
            IN /\ ~IsEmptyValue(old) => new = old
               /\ (IsEmptyValue(old) /\ ~IsEmptyValue(slide)) => new = slide
               /\ new # old => (IsEmptyValue(old) /\ ~IsEmptyValue(slide))
    ]_vars

\* Witness of C1: a merge has kept an existing description against a slide
\* that carried one, and has filled an empty tableInMd from the same slide.
C1_Witness ==
    /\ updated_count = 1
    /\ payload.data.referenceString = VStr("1.1")
    /\ payload.data.description = VStr("New")
    /\ products_dict["1.1"].description = VStr("Existing")
    /\ input_products[1].data.tableInMd = VStr("")
    /\ products_dict["1.1"].tableInMd = VStr("New")

\* PackagingInformation is empty when it is absent or when every numeric
\* sub-field is zero or absent and additional_notes is "Not specified".
PackagingIsEmpty(v) ==
    \/ v = VNone
    \/ /\ v.t = "dict"
       /\ \A k \in DOMAIN v.d \ {"additional_notes"} : v.d[k] = VInt(0)
       /\ Get(v.d, "additional_notes") \in {VNone, VStr("Not specified")}

\* C2: a merge replaces a PackagingInformation that is empty in this sense
\* by the slide's non-empty one, and keeps a partially filled one whole.
C2_PackagingEmptiness ==
    [][MergeStep =>
        LET old   == Get(products_dict[MergedRef], "PackagingInformation")
            new   == Get(products_dict'[MergedRef], "PackagingInformation")
            slide == Get(payload'.data, "PackagingInformation")
        IN /\ (PackagingIsEmpty(old) /\ ~PackagingIsEmpty(slide)) => new = slide
           /\ ~PackagingIsEmpty(old) => new = old
    ]_vars


(***************************************************************************)
(* Properties of excel_to_products (SpecExcel), stated on the sheet.       *)
(***************************************************************************)

\* A cell holds text that is not blank.
HasText(cell) == cell # NaN /\ Strip(cell) # <<>>

\* The reference a row stands under: its own, or that of the nearest row
\* above whose reference cell is not missing; NaN when there is none.
NearestRef(i) ==
    LET above == {j \in 1..i : sheet[j].reference # NaN}
    IN IF above = {} THEN NaN
       ELSE sheet[CHOOSE j \in above : \A k \in above : k <= j].reference

NearestName(i) ==
    LET above == {j \in 1..i : sheet[j].product_name # NaN}
    IN IF above = {} THEN NaN
       ELSE sheet[CHOOSE j \in above : \A k \in above : k <= j].product_name

\* The rows that are variations of reference ref: they have a size and
\* stand under ref.
GroupRows(ref) ==
    {i \in 1..Len(sheet) :
        /\ HasText(sheet[i].size)
        /\ HasText(NearestRef(i))
        /\ Strip(NearestRef(i)) = ref}

RECURSIVE SizesOf(_)
SizesOf(rows) ==
    IF rows = {} THEN <<>>
    ELSE LET last == CHOOSE i \in rows : \A j \in rows : j <= i
         IN Append(SizesOf(rows \ {last}), Strip(sheet[last].size))

FirstOf(rows) == CHOOSE i \in rows : \A j \in rows : i <= j

ProductsWithRef(ref) ==
    {k \in 1..Len(result) : result[k].data.referenceString = ref}

RunEnded == xl_pc \in {"done", "crashed"}

PlainRun == only_ref = NoArg /\ limit_variations = VNone

\* C3: when a run without --only-ref and --limit-variations has ended,
\* every row that has a size and stands under a reference (its own or the
\* nearest one above it) is a variation of exactly one written product,
\* the one with that reference; the product's variations are the rows of
\* its group in sheet order, and its name is that of the group's first row.
C3_ForwardFillGrouping ==
    (RunEnded /\ PlainRun) =>
        \A i \in 1..Len(sheet) :
            (HasText(sheet[i].size) /\ HasText(NearestRef(i))) =>
                LET ref   == Strip(NearestRef(i))
                    first == FirstOf(GroupRows(ref))
                IN /\ Cardinality(ProductsWithRef(ref)) = 1
                   /\ \A k \in ProductsWithRef(ref) :
                        /\ [v \in 1..Len(result[k].data.variations) |->
                               result[k].data.variations[v].size]
                             = SizesOf(GroupRows(ref))
                        /\ HasText(NearestName(first)) =>
                             result[k].data.name = Strip(NearestName(first))

\* C4: no row without a size (missing, empty or blank) is left in the frame
\* the grouping loop works on, and the run does not fail.
C4_SizeFilter ==
    /\ \A i \in 1..Len(df) : HasText(df[i].size)
    /\ xl_pc # "crashed"

\* C5: in the written array every referenceString is non-empty, no two
\* products share one, and every product stems from a reference of the
\* sheet: a row without any reference contributes to no product.
C5_ReferenceKey ==
    xl_pc = "done" =>
        /\ \A k \in 1..Len(result) : result[k].data.referenceString # <<>>
        /\ \A k, l \in 1..Len(result) :
              result[k].data.referenceString = result[l].data.referenceString
                  => k = l
        /\ \A k \in 1..Len(result) :
              \E i \in 1..Len(sheet) :
                  /\ sheet[i].reference # NaN
                  /\ Strip(sheet[i].reference) = result[k].data.referenceString

\* The first row that joined the product with reference ref.
FirstSeen(ref) == FirstOf(GroupRows(ref))

FromSheet(k) == GroupRows(result[k].data.referenceString) # {}

\* C6 as stated: the written array is in first-seen order.
C6_FirstSeenOrder ==
    xl_pc = "done" =>
        \A k, l \in 1..Len(result) :
            (FromSheet(k) /\ FromSheet(l) /\ k < l) =>
                FirstSeen(result[k].data.referenceString)
                    < FirstSeen(result[l].data.referenceString)

\* C6, amended: the written array is in ascending natural order of
\* referenceString (runs of digits compared as numbers), and without
\* --only-ref it holds every product that was built.
C6_NaturalOrder ==
    xl_pc = "done" =>
        /\ \A k, l \in 1..Len(result) :
              k < l => ~KeyLess(natural_key(result[l].data.referenceString),
                                natural_key(result[k].data.referenceString))
        /\ ~only_ref_given =>
              /\ Len(result) = Len(products)
              /\ \A k \in 1..Len(products) :
                    \E l \in 1..Len(result) : result[l] = products[k]

\* Witness of C6: reference 1.10 was seen first and 1.2 second, and the
\* array was written with 1.2 first.
C6_Witness ==
    /\ xl_pc = "done"
    /\ Len(result) = 2
    /\ products[1].data.referenceString = R110
    /\ products[2].data.referenceString = R12
    /\ result[1].data.referenceString = R12
    /\ result[2].data.referenceString = R110


(***************************************************************************)
(* Properties of the slug builder (SpecSlug).                              *)
(***************************************************************************)

\* C7: when add_slugs_to_products has returned, no two products of the
\* returned catalog carry the same slug, for every catalog and every limit.
C7_SlugsUnique ==
    slug_pc = "done" =>
        \A k, l \in 1..Len(updated_products) :
            (/\ "slug" \in DOMAIN updated_products[k].data
             /\ "slug" \in DOMAIN updated_products[l].data
             /\ updated_products[k].data.slug = updated_products[l].data.slug)
                => k = l


(***************************************************************************)
(* Properties of the category resolution (SpecCat).                        *)
(***************************************************************************)

\* The row convert_row_to_strapi_format handled last became a product.
RowConverted == cat_i > 0 /\ converted.product # VNone

LastCategoryName == CellText(cat_df[cat_i].category)

InFetched(name) ==
    \E i \in 1..Len(categories_map) :
        Upper(categories_map[i].name) = Upper(name)

InHardcoded(name) == Join(Upper(name)) \in DOMAIN category_mapping

\* C8: a name found in the fetched mapping gets the id of the first entry
\* that matches it, whatever the hardcoded table holds; a name found only
\* in the hardcoded table gets the hardcoded id and counts as resolved.
C8_ResolutionOrder ==
    RowConverted =>
        /\ InFetched(LastCategoryName) =>
              \E i \in 1..Len(categories_map) :
                  /\ Upper(categories_map[i].name) = Upper(LastCategoryName)
                  /\ \A j \in 1..(i - 1) :
                        Upper(categories_map[j].name) # Upper(LastCategoryName)
                  /\ converted.product.data.category = VInt(categories_map[i].id)
                  /\ converted.info.has_category
        /\ (~InFetched(LastCategoryName) /\ InHardcoded(LastCategoryName)) =>
              /\ converted.product.data.category =
                    VInt(category_mapping[Join(Upper(LastCategoryName))])
              /\ converted.info.has_category
              /\ converted.info.missing_category_id = NoCategoryName

\* C9: a name found in neither table is reported unresolved and leaves the
\* category id of the product null.
C9_UnresolvedStaysNull ==
    (RowConverted /\ LastCategoryName # <<>>
                  /\ ~InFetched(LastCategoryName)
                  /\ ~InHardcoded(LastCategoryName)) =>
        /\ ~converted.info.has_category
        /\ converted.product.data.category = VNone


(***************************************************************************)
(* Properties of the HTTP client (SpecStrapi).                             *)
(***************************************************************************)

\* C10: a call of _make_request issues at most MAX_RETRIES requests; every
\* request but the last one of the call raised a RequestException; a
\* response of any status is what the call returns; after MAX_RETRIES
\* exceptions the call returns None; and every call returns.
C10_BoundedRetry ==
    /\ [](Len(req_log) <= MAX_RETRIES)
    /\ [](\A i \in 1..(Len(req_log) - 1) : req_log[i] = RequestException)
    /\ [](req_pc = "returned" =>
            IF req_log[Len(req_log)] = RequestException
            THEN Len(req_log) = MAX_RETRIES /\ response = VNone
            ELSE response = req_log[Len(req_log)])
    /\ (req_pc = "request" ~> req_pc = "returned")

\* Witness of C10: a call has returned None after MAX_RETRIES exceptions.
C10_Witness ==
    /\ req_pc = "returned"
    /\ Len(req_log) = MAX_RETRIES
    /\ \A i \in 1..Len(req_log) : req_log[i] = RequestException
    /\ response = VNone

(***************************************************************************)
(* Properties of the batch upload (SpecUpload).                            *)
(***************************************************************************)

\* Number of POST requests of this run for the product at index k.
PostsFor(k) ==
    Cardinality({n \in 1..Len(request_log) :
                    /\ request_log[n].index = k
                    /\ request_log[n].method = "POST"})

\* The indices of the products attempted in this run.
Attempted == {request_log[n].index : n \in 1..Len(request_log)}

\* The product at index k is in the failure list after a POST that raised.
FailedAtTransport(k) ==
    /\ \E n \in 1..Len(request_log) :
          request_log[n].index = k /\ request_log[n].outcome.t = "error"
    /\ \E m \in 1..Len(failed_products) :
          failed_products[m].product_data = up_catalog[k + 1]

\* C11: a product is recorded in the failure list for a transport-level
\* failure only after its POST was retried, that is after more than one
\* request for it.
C11_TransportRetry ==
    \A k \in Attempted : FailedAtTransport(k) => PostsFor(k) > 1

(***************************************************************************)
(* Properties of the two Strapi clients (SpecClient).                      *)
(***************************************************************************)

\* A returned value reports success: it is neither None nor False.
Succeeded(v) == v # VNone /\ v # [t |-> "bool", b |-> FALSE]

\* The response has one of the given statuses (a missing response has none).
HasStatus(r, statuses) == r # VNone /\ r.t = "response" /\ r.status \in statuses

\* C12: create and update succeed exactly when the status is 200 or 201,
\* delete exactly when it is 200 or 204; in every other case, a missing
\* response included, create and update of utils.strapi and create_product
\* of the driver return None and the others return False.
C12_StatusSuccess ==
    /\ (req_pc = "idle" /\ req_op \in {"create", "update"}) =>
          /\ Succeeded(op_result) <=> HasStatus(response, {200, 201})
          /\ ~Succeeded(op_result) => op_result = VNone
    /\ (req_pc = "idle" /\ req_op = "delete") =>
          /\ Succeeded(op_result) <=> HasStatus(response, {200, 204})
          /\ ~Succeeded(op_result) => op_result = [t |-> "bool", b |-> FALSE]
    /\ drv_op \in {"create_product", "update_product"} =>
          Succeeded(drv_result) <=> HasStatus(drv_outcome, {200, 201})
    /\ drv_op = "delete_product" =>
          Succeeded(drv_result) <=> HasStatus(drv_outcome, {200, 204})
    /\ (drv_op = "create_product" /\ ~Succeeded(drv_result)) =>
          drv_result = VNone
    /\ (drv_op \in {"update_product", "delete_product"}
          /\ ~Succeeded(drv_result)) =>
          drv_result = [t |-> "bool", b |-> FALSE]

\* Witness of C12: utils.strapi has refused a 204 answer to a create, and
\* the driver has accepted a 204 answer to a delete.
C12_Witness ==
    /\ req_pc = "idle"
    /\ req_op = "create"
    /\ HasStatus(response, {204})
    /\ op_result = VNone
    /\ drv_op = "delete_product"
    /\ HasStatus(drv_outcome, {204})
    /\ drv_result = [t |-> "bool", b |-> TRUE]

\* The failure list holds the product at index k with the given error text.
RecordedFailure(k, text) ==
    \E m \in 1..Len(failed_products) :
        /\ failed_products[m].product_data = up_catalog[k + 1]
        /\ failed_products[m].error = text

\* The loop of run_upload is over.
BatchesOver == up_pc \in {"save", "done", "aborted"}

\* C13: every request that was answered with a status other than 200 and
\* 201 left a failure entry carrying the status and the response body,
\* every request that raised left one carrying the error text, and once
\* the batches are over every product of every batch that was started has
\* been attempted, whatever happened to the products before it.
C13_FailureIsolation ==
    /\ \A n \in 1..Len(request_log) :
          LET k == request_log[n].index
              o == request_log[n].outcome
          IN /\ (o.t = "response" /\ o.status \notin {200, 201}) =>
                   RecordedFailure(k, "HTTP " \o ToString(o.status) \o ": "
                                        \o o.text)
             /\ o.t = "error" =>
                   RecordedFailure(k, "Network error: " \o o.text)
    /\ BatchesOver =>
          Attempted =
             0..(end_index(start_index, batch_size, Len(up_catalog)) - 1)

\* Witness of C13: in a batch of two, the first POST raised, the second was
\* refused with 400, and both products are in the failure list.
C13_Witness ==
    /\ BatchesOver
    /\ batch_size = 2
    /\ Len(request_log) >= 2
    /\ request_log[1].outcome.t = "error"
    /\ request_log[2].outcome.t = "response"
    /\ request_log[2].outcome.status = 400
    /\ Len(failed_products) >= 2
    /\ failed_products[1].error = "Network error: timed out"
    /\ failed_products[2].error = "HTTP 400: Bad Request"

\* run_upload has ended after the first question: it returned True, or an
\* exception ended it.
RunOver == up_pc \in {"done", "aborted"}

\* The entries of a persisted list; a file that was not written has none.
Persisted(file) == IF file = VNone THEN <<>> ELSE file.l

\* The product at index k is in the persisted success list, with its remote
\* id, name and reference.
InSavedUploaded(k) ==
    \E m \in 1..Len(Persisted(saved_uploaded)) :
       LET e == Persisted(saved_uploaded)[m] IN
       /\ e.reference = DataGet(up_catalog[k + 1], "referenceString",
                                "No Reference")
       /\ e.product_name = DataGet(up_catalog[k + 1], "name", "Unknown")
       /\ \E r \in 1..Len(remote) :
             remote[r].id = e.product_id /\ remote[r].reference = e.reference

\* The product at index k is in the persisted failure list, with its
\* original payload.
InSavedFailed(k) ==
    \E m \in 1..Len(Persisted(saved_failed)) :
       Persisted(saved_failed)[m].product_data = up_catalog[k + 1]

\* C14: when a run that attempted at least one upload is over, every
\* attempted product is in exactly one of the two persisted lists, and the
\* two lists together are as long as the number of products attempted.
C14_UploadAccounting ==
    (RunOver /\ Attempted # {}) =>
       /\ \A k \in Attempted : InSavedUploaded(k) # InSavedFailed(k)
       /\ Len(Persisted(saved_uploaded)) + Len(Persisted(saved_failed))
             = Cardinality(Attempted)

\* Number of times the operator has agreed to the next batch.
Confirmations ==
    Cardinality({m \in 1..Len(confirm_log) : answered_yes(confirm_log[m].answer)})

\* C15: the products are attempted in catalog order, each once; the operator
\* is asked after every batch_size products and never when no product is
\* left; a product of a later batch is attempted only after as many
\* confirmations as there are batches before it; and after an answer other
\* than yes no product is attempted and no question asked.
C15_OperatorPause ==
    /\ \A n \in 1..Len(request_log) :
          /\ request_log[n].index = n - 1
          /\ request_log[n].index \div batch_size <= Confirmations
    /\ \A m \in 1..Len(confirm_log) :
          /\ confirm_log[m].after = m * batch_size
          /\ confirm_log[m].after < Len(up_catalog)
          /\ ~answered_yes(confirm_log[m].answer) =>
                /\ m = Len(confirm_log)
                /\ Len(request_log) = confirm_log[m].after

\* Witness of C15: three products in batches of two; the operator agreed
\* after the first batch, the shorter second batch followed, and the run
\* ended without a second question.
C15_Witness ==
    /\ up_pc = "done"
    /\ Len(up_catalog) = 3
    /\ batch_size = 2
    /\ confirm_log = <<[after |-> 2, answer |-> "y"]>>
    /\ Len(request_log) = 3

\* The step just taken recorded an upload as successful.
UploadSucceeded == Len(uploaded_products') = Len(uploaded_products) + 1

\* The ids of the remote records.
RemoteIds(records) == {records[r].id : r \in 1..Len(records)}

FieldIsEmpty(product, f) ==
    IF f = "PackagingInformation"
    THEN PackagingIsEmpty(Get(product, f))
    ELSE IsEmptyValue(Get(product, f))

\* The fields the issues file reports as missing for a reference.
ReportedMissing(ref) ==
    {f \in MergeFields :
        \E m \in 1..Len(incomplete_products) :
            /\ incomplete_products[m].referenceString = ref
            /\ \E n \in 1..Len(incomplete_products[m].missing) :
                  incomplete_products[m].missing[n] = f}

\* Under the merge rule the product would take a slide value for field f.
CanReceive(product, f) ==
    \E p \in SlidePayloads :
        Get(merge_slide_data(p, product), f) # Get(product, f)

\* C17: in the written issues, a product is listed exactly when one of its
\* five mergeable fields is empty, with exactly its empty fields; and a
\* field is reported missing exactly when the merge rule would still fill
\* it from a slide.
C17_Completeness ==
    merger_pc = "done" =>
       \A i \in 1..Len(enriched_products) :
          LET product == enriched_products[i].data
              ref == product.referenceString.s
          IN /\ \A f \in MergeFields :
                   /\ f \in ReportedMissing(ref) <=> FieldIsEmpty(product, f)
                   /\ f \in ReportedMissing(ref) <=> CanReceive(product, f)
             /\ (\E m \in 1..Len(incomplete_products) :
                    incomplete_products[m].referenceString = ref)
                <=> (\E f \in MergeFields : FieldIsEmpty(product, f))

\* C18: every slide handled so far was either merged or listed as
\* unmatched, and the written catalog holds the input products, one for
\* one.
C18_SlideAccounting ==
    /\ merger_pc \in {"slides", "done"} =>
          updated_count + Len(unmatched_slides) = slide_idx
    /\ merger_pc = "done" =>
          /\ Len(enriched_products) = Len(input_products)
          /\ \A i \in 1..Len(input_products) :
                \E j \in 1..Len(enriched_products) :
                   /\ enriched_products[j].data.referenceString
                         = input_products[i].data.referenceString
                   /\ enriched_products[j].data.name
                         = input_products[i].data.name

(***************************************************************************)
(* Properties of excel_to_json (SpecJson).                                 *)
(***************************************************************************)

\* The category value of row i is missing or is not a key of the mapping.
CategoryUnresolved(i) == CellStr(js_df[i].category) \notin js_categories_map

\* One of the division ids of row i is not a key of the mapping.
DivisionUnresolved(i) ==
    \E n \in 1..Len(js_parse_divisions(js_df[i].divisions)) :
        ToString(js_parse_divisions(js_df[i].divisions)[n])
            \notin js_divisions_map

\* Row i appears in the validation summary.
Surfaced(i) ==
    \/ \E m \in 1..Len(missing_categories) : missing_categories[m].row = i
    \/ \E m \in 1..Len(missing_divisions) : missing_divisions[m].row = i

\* Row i was converted: a product was written for it.
Converted(i) ==
    ~\E m \in 1..Len(js_validation_results) :
        js_validation_results[m].row_index = i

\* C19: when the run is over, every row whose category value is missing or
\* not in the mapping, or one of whose division ids is not in the mapping,
\* was not converted and appears in the validation summary, under missing
\* categories or under missing divisions.
C19_QualitySurfaced ==
    js_pc = "done" =>
       \A i \in 1..Len(js_df) :
          (CategoryUnresolved(i) \/ DivisionUnresolved(i)) =>
             ~Converted(i) /\ Surfaced(i)

(***************************************************************************)
(* Per-row error containment in excel_to_products (SpecExcel).             *)
(***************************************************************************)

\* C20: an error raised while a row is converted does not abort the run,
\* and when the run has ended every row of the frame has been handled.
C20_RowErrorContained ==
    /\ xl_pc # "crashed"
    /\ RunEnded => row_i = Len(df)


(***************************************************************************)
(* core/cli_slide_driver.py: the interactive sessions.                     *)
(*                                                                         *)
(* A session is one run of main() over the whole deck (--start 1, no       *)
(* --end).  The operator, the extraction and the CMS are the environment:  *)
(* the choice at the prompt, the answers to the confirmations and the      *)
(* outcome of every remote call are drawn at each slide.  A progress entry *)
(* is modelled by its slide_number, action and strapi_id and by whether    *)
(* its error is set; the timestamp, the product name and the text of the   *)
(* error play no part in resuming.                                         *)
(***************************************************************************)
MaxDeckSlides == 2

\* ProgressEntry (lines 38-46); strapi_id defaults to None, error is TRUE
\* when the entry carries an error text.
ProgressEntry(n, action, strapi_id, error) ==
    [slide_number |-> n, action |-> action, strapi_id |-> strapi_id,
     error |-> error]

\* What the environment does while one slide is handled: whether
\* find_by_reference finds the product, the answer to the confirmation
\* (upload after A, delete for D and R), whether process_slide_two_steps
\* raises, what delete_product and create_product return.
SlideOutcomes ==
    [existing : BOOLEAN, confirmed : BOOLEAN, extraction_raises : BOOLEAN,
     delete_ok : BOOLEAN, created : BOOLEAN]

SlideChoices == {"A", "U", "D", "R", "S"}

\* ProgressTracker.add_entry (lines 203-206) without its save_progress().
add_entry_no_save(tracker, entry) ==
    [tracker EXCEPT !.entries = Append(@, entry)]

\* ProgressTracker.add_entry (lines 203-206): append, then save_progress()
\* (lines 195-201) writes the whole list to the progress file.
add_entry(tracker, entry) ==
    LET all == Append(tracker.entries, entry)
    IN [entries |-> all, file |-> all]

\* Lines 378-543: the entry process_slide_interactive records for a choice
\* other than Q, or None when it records nothing.
slide_entry(n, choice, o) ==
    CASE choice = "S" -> ProgressEntry(n, "skip", VNone, FALSE)
      [] choice = "A" ->
            IF o.extraction_raises
            THEN ProgressEntry(n, "extract", VNone, TRUE)
            ELSE IF ~o.confirmed
            THEN ProgressEntry(n, "extract", VNone, FALSE)
            ELSE IF o.created
            THEN ProgressEntry(n, "upload", VInt(CreatedId), FALSE)
            ELSE ProgressEntry(n, "upload", VNone, TRUE)
      [] choice = "U" ->
            IF o.extraction_raises
            THEN ProgressEntry(n, "upload", VNone, TRUE)
            ELSE IF o.created
            THEN ProgressEntry(n, "upload", VInt(CreatedId), FALSE)
            ELSE ProgressEntry(n, "upload", VNone, TRUE)
      [] choice = "D" ->
            IF o.existing /\ o.confirmed /\ o.delete_ok
            THEN ProgressEntry(n, "delete", VInt(CreatedId), FALSE)
            ELSE VNone
      [] choice = "R" ->
            IF o.existing /\ o.confirmed /\ o.delete_ok
               /\ ~o.extraction_raises /\ o.created
            THEN ProgressEntry(n, "delete_recreate", VInt(CreatedId), FALSE)
            ELSE VNone

\* Lines 497 and 517: delete_product was called and returned True.
slide_deleted(choice, o) ==
    choice \in {"D", "R"} /\ o.existing /\ o.confirmed /\ o.delete_ok

\* ProgressTracker.get_processed_slides (lines 208-210).
get_processed_slides(entries) ==
    {entries[i].slide_number : i \in 1..Len(entries)}

SetMax(S) == CHOOSE m \in S : \A x \in S : x <= m

\* Lines 579-591: the first slide of the loop.
first_slide(entries, resume) ==
    IF get_processed_slides(entries) # {} /\ resume
    THEN IF SetMax(get_processed_slides(entries)) + 1 > 1
         THEN SetMax(get_processed_slides(entries)) + 1 ELSE 1
    ELSE 1

SessionInit ==
    /\ ss_pc = "start"
    /\ ss_phase = "earlier"
    /\ total_slides \in 1..MaxDeckSlides
    /\ start_slide = 0
    /\ end_slide = 0
    /\ slide_number = 0
    /\ ss_entries = <<>>
    /\ progress_file = <<>>
    /\ ss_loaded = 0
    /\ ss_resumed = FALSE
    /\ ss_last = VNone
    /\ ss_exit = "none"

\* main(), lines 565-591: load the progress file, ask whether to resume
\* when it holds entries, fix the range.
StartSession ==
    /\ ss_pc = "start"
    /\ \E resume \in BOOLEAN :
        /\ resume => get_processed_slides(progress_file) # {}
        /\ ss_resumed' = resume
        /\ start_slide' = first_slide(progress_file, resume)
        /\ slide_number' = first_slide(progress_file, resume)
    /\ ss_entries' = progress_file
    /\ ss_loaded' = Len(progress_file)
    /\ end_slide' = total_slides
    /\ ss_last' = VNone
    /\ ss_exit' = "none"
    /\ ss_pc' = "slide"
    /\ UNCHANGED <<ss_phase, total_slides, progress_file>>
    /\ UNCHANGED notSession

InLoop == ss_pc = "slide" /\ slide_number <= end_slide

\* What process_slide_interactive can do on slide n for a choice other than
\* Q: the entry it records and whether it deleted the product.
slide_results(n) ==
    {[entry |-> slide_entry(n, choice, o),
      deleted |-> slide_deleted(choice, o)] :
        choice \in SlideChoices, o \in SlideOutcomes}

\* process_slide_interactive for a choice other than Q.
ProcessSlideInteractive ==
    /\ InLoop
    /\ \E r \in slide_results(slide_number) :
        LET tracker == [entries |-> ss_entries, file |-> progress_file]
            after   == IF r.entry = VNone THEN tracker
                       ELSE add_entry(tracker, r.entry)
        IN /\ ss_entries' = after.entries
           /\ progress_file' = after.file
           /\ ss_last' = [slide_number |-> slide_number,
                          deleted |-> r.deleted,
                          entries_before |-> Len(ss_entries)]
    /\ slide_number' = slide_number + 1
    /\ UNCHANGED <<ss_pc, ss_phase, total_slides, start_slide, end_slide,
                   ss_loaded, ss_resumed, ss_exit>>
    /\ UNCHANGED notSession

\* Lines 382-384: Q leaves with sys.exit(0), nothing is written.
Quit ==
    /\ InLoop
    /\ ss_pc' = "exited"
    /\ ss_exit' = "quit"
    /\ UNCHANGED <<ss_phase, total_slides, start_slide, end_slide,
                   slide_number, ss_entries, progress_file, ss_loaded,
                   ss_resumed, ss_last>>
    /\ UNCHANGED notSession

\* Lines 545-548 and 601-604: Ctrl-C at a prompt; save_progress(), exit.
Interrupt ==
    /\ InLoop
    /\ progress_file' = ss_entries
    /\ ss_pc' = "exited"
    /\ ss_exit' = "interrupt"
    /\ UNCHANGED <<ss_phase, total_slides, start_slide, end_slide,
                   slide_number, ss_entries, ss_loaded, ss_resumed, ss_last>>
    /\ UNCHANGED notSession

\* Line 599: the loop is over.
Completed ==
    /\ ss_pc = "slide"
    /\ slide_number > end_slide
    /\ ss_pc' = "exited"
    /\ ss_exit' = "completed"
    /\ UNCHANGED <<ss_phase, total_slides, start_slide, end_slide,
                   slide_number, ss_entries, progress_file, ss_loaded,
                   ss_resumed, ss_last>>
    /\ UNCHANGED notSession

\* The driver is started again on the same deck and progress file.
NextSession ==
    /\ ss_pc = "exited"
    /\ ss_phase = "earlier"
    /\ ss_phase' = "later"
    /\ ss_pc' = "start"
    /\ UNCHANGED <<total_slides, start_slide, end_slide, slide_number,
                   ss_entries, progress_file, ss_loaded, ss_resumed, ss_last,
                   ss_exit>>
    /\ UNCHANGED notSession

SessionNext ==
    \/ StartSession
    \/ ProcessSlideInteractive
    \/ Quit
    \/ Interrupt
    \/ Completed
    \/ NextSession

InitSession == SessionInit /\ PipelinesIdle /\ HeadersIdle /\ ParseIdle
               /\ EnrichIdle /\ RaceIdle
SpecSession == InitSession /\ [][SessionNext]_vars

(***************************************************************************)
(* Properties of the interactive sessions (SpecSession).                   *)
(***************************************************************************)

\* The driver has exited.
Exited == ss_pc = "exited"

\* The entry is in the progress file.
OnDisk(entry) == \E i \in 1..Len(progress_file) : progress_file[i] = entry

ProcessedNow == start_slide..(slide_number - 1)

\* The slides with an entry in the progress file as it was loaded.
HadEntry == get_processed_slides(SubSeq(ss_entries, 1, ss_loaded))

\* C29: after the operator accepted to resume and the session ran to the
\* end of the range, the slides processed in it are exactly the slides of
\* the range that had no entry in the progress file.
C29_ResumeExact ==
    (Exited /\ ss_exit = "completed" /\ ss_resumed) =>
        ProcessedNow = (1..end_slide) \ HadEntry

\* C30: when delete_product succeeded on a slide, a progress entry for that
\* slide has been added and written by the time the driver has moved on.
C30_DeleteRecorded ==
    (ss_last # VNone /\ ss_last.deleted) =>
        \E i \in (ss_last.entries_before + 1)..Len(progress_file) :
            progress_file[i].slide_number = ss_last.slide_number


(***************************************************************************)
(* excel_to_products.py: header matching and the renaming of the columns.  *)
(*                                                                         *)
(* A pattern is applied to a normalized header, in which every run of      *)
(* whitespace is one blank, so `\s*` stands for no blank or one blank.     *)
(***************************************************************************)
MaxColumns == 3

\* The characters of a text.
Chars(s) == [i \in 1..Len(s) |-> SubSeq(s, i, i)]

IsBlank(c) == c \in {" ", "\t", "\n"}

\* re.sub(r"\s+", " ", text).
RECURSIVE collapse_blanks(_)
collapse_blanks(s) ==
    IF s = <<>> THEN <<>>
    ELSE IF IsBlank(Head(s))
    THEN IF Len(s) > 1 /\ IsBlank(s[2])
         THEN collapse_blanks(Tail(s))
         ELSE <<" ">> \o collapse_blanks(Tail(s))
    ELSE <<Head(s)>> \o collapse_blanks(Tail(s))

\* normalize_header (lines 42-43).
normalize_header(h) == Lower(Strip(collapse_blanks(h)))

\* re.search of a pattern without anchors: the literal occurs in the text.
Contains(text, lit) ==
    \E i \in 1..(Len(text) - Len(lit) + 1) :
        SubSeq(text, i, i + Len(lit) - 1) = lit

StartsWith(text, lit) ==
    Len(text) >= Len(lit) /\ SubSeq(text, 1, Len(lit)) = lit

\* The texts a fully anchored pattern accepts.
Texts(S) == {Chars(s) : s \in S}

\* ALIASES (lines 8-23): the canonical names in the order of the dict.
AliasOrder ==
    <<"reference", "category_name", "product_name", "size", "picture", "ce",
      "ce_mdr", "fda", "iso", "pcs_inner", "pcs_outer", "loading_20gp",
      "loading_40hc", "carton_size">>

\* ALIASES (lines 8-23): the texts the fully anchored patterns of each
\* canonical name accept.
ALIASES ==
    [reference |->
        Texts({"id.1", "id", "ref", "reference", "refstring", "ref string",
               "referencestring", "reference string", "productid",
               "product id"}),
     category_name |->
        Texts({"productcategory", "product category", "productscategory",
               "products category", "product'category", "product' category",
               "products'category", "products' category", "category",
               "categoryname", "category name"}),
     product_name |->
        Texts({"product", "products", "productname", "product name", "item"}),
     size |-> Texts({"size", "sizes", "variant", "model"}),
     picture |-> Texts({"picture", "image", "photo"}),
     ce |-> Texts({"ce"}),
     ce_mdr |-> {},
     fda |-> Texts({"fda"}),
     iso |->
        {Chars("iso" \o a \o "st" \o b \o "/" \o c \o "ard") :
            a \in {"", " "}, b \in {"", " "}, c \in {"", " "}}
        \cup Texts({"standard", "standards"}),
     pcs_inner |->
        {Chars(a \o b \o "inner" \o c \o d) :
            a \in {"pcs", "pcs/"}, b \in {"", " "}, c \in {"", " "},
            d \in {"pack", "packaging"}}
        \cup Texts({"innerpcs", "inner pcs", "innerqty", "inner qty"}),
     pcs_outer |->
        {Chars(a \o b \o "outer" \o c \o d) :
            a \in {"pcs", "pcs/"}, b \in {"", " "}, c \in {"", " "},
            d \in {"pack", "packaging"}}
        \cup Texts({"outerpcs", "outer pcs", "outerqty", "outer qty",
                    "cartonqty", "carton qty"}),
     loading_20gp |-> Texts({"loadingcapacity", "loading capacity", "20gp"}),
     loading_40hc |-> Texts({"unnamed:16", "unnamed: 16", "40hc"}),
     carton_size |->
        Texts({"cartonsize", "carton size", "ctnsize", "ctn size", "boxsize",
               "box size"})]

\* Lines 48-49: some pattern of the canonical name matches the normalized
\* header: an anchored one, `^ce[_\s-]*mdr$`, `^iso`, `20\s*gp` or `40\s*hc`.
alias_matches(canon, norm) ==
    \/ norm \in ALIASES[canon]
    \/ /\ canon = "ce_mdr"
       /\ Len(norm) >= 5
       /\ SubSeq(norm, 1, 2) = <<"c", "e">>
       /\ SubSeq(norm, Len(norm) - 2, Len(norm)) = <<"m", "d", "r">>
       /\ \A i \in 3..(Len(norm) - 3) : norm[i] \in {"_", " ", "-"}
    \/ canon = "iso" /\ StartsWith(norm, <<"i", "s", "o">>)
    \/ /\ canon = "loading_20gp"
       /\ \/ Contains(norm, <<"2", "0", "g", "p">>)
          \/ Contains(norm, <<"2", "0", " ", "g", "p">>)
    \/ /\ canon = "loading_40hc"
       /\ \/ Contains(norm, <<"4", "0", "h", "c">>)
          \/ Contains(norm, <<"4", "0", " ", "h", "c">>)

\* match_header that keeps looking and returns the last canonical name that
\* matches.
RECURSIVE match_from_last(_, _)
match_from_last(norm, k) ==
    IF k = 0 THEN VNone
    ELSE IF alias_matches(AliasOrder[k], norm) THEN VStr(AliasOrder[k])
    ELSE match_from_last(norm, k - 1)

match_header_last(name) == match_from_last(normalize_header(name), Len(AliasOrder))

\* Lines 47-51: the loop over ALIASES.items() from entry k on.
RECURSIVE match_from(_, _)
match_from(norm, k) ==
    IF k > Len(AliasOrder) THEN VNone
    ELSE IF alias_matches(AliasOrder[k], norm) THEN VStr(AliasOrder[k])
    ELSE match_from(norm, k + 1)

\* match_header (lines 45-51).
match_header(name) == match_from(normalize_header(name), 1)

\* The raw headers of the modelled sheets.
RawHeaders ==
    Texts({"ID", "ID.1", "Reference String", "Product ID", " Product  Name",
           "Isolation", "Loading\nCapacity", "20GP / 40HC", "CE - MDR",
           "Remarks"})

\* read_excel gives every column a name of its own.
HeaderRows ==
    {cols \in UNION {[1..n -> RawHeaders] : n \in 1..MaxColumns} :
        \A i, j \in 1..Len(cols) : i # j => cols[i] # cols[j]}

\* Line 114: the key already mapped to the canonical name.
existing_col(items, canon) ==
    items[CHOOSE i \in 1..Len(items) :
            /\ items[i].canon = canon
            /\ \A j \in 1..(i - 1) : items[j].canon # canon].raw

\* Lines 109-120: the rename dict after column c.
renamed(items, c) ==
    LET canon == match_header(c) IN
    IF canon = VNone THEN items
    ELSE IF \E i \in 1..Len(items) : items[i].canon = canon.s
    THEN IF Len(c) > Len(existing_col(items, canon.s)) \/ c = <<"I", "D", ".", "1">>
         THEN Append(SelectSeq(items, LAMBDA it : it.canon # canon.s),
                     [raw |-> c, canon |-> canon.s])
         ELSE items
    ELSE Append(items, [raw |-> c, canon |-> canon.s])

HeadersInit ==
    /\ columns \in HeaderRows
    /\ hdr_i = 0
    /\ hdr_canon = VNone
    /\ rename = <<>>

\* One iteration of the loop of lines 108-120.
RenameColumn ==
    /\ hdr_i < Len(columns)
    /\ hdr_i' = hdr_i + 1
    /\ hdr_canon' = match_header(columns[hdr_i + 1])
    /\ rename' = renamed(rename, columns[hdr_i + 1])
    /\ UNCHANGED columns
    /\ UNCHANGED notHeaders

HeadersNext == RenameColumn

InitHeaders == HeadersInit /\ PipelinesIdle /\ SessionIdle /\ ParseIdle
               /\ EnrichIdle /\ RaceIdle
SpecHeaders == InitHeaders /\ [][HeadersNext]_vars

(***************************************************************************)
(* Properties of the header matching (SpecHeaders).                        *)
(***************************************************************************)

\* The header the loop handled last, normalized.
LastHeader == normalize_header(columns[hdr_i])

\* The positions of ALIASES whose entry matches the header handled last.
MatchingEntries ==
    {k \in 1..Len(AliasOrder) : alias_matches(AliasOrder[k], LastHeader)}

\* C22: match_header returns the first canonical name, in the order of the
\* alias table, one of whose patterns matches the normalized header, and
\* no name when none matches.
C22_FirstMatchWins ==
    hdr_i > 0 =>
        /\ MatchingEntries = {} => hdr_canon = VNone
        /\ MatchingEntries # {} =>
            \E k \in MatchingEntries :
                /\ hdr_canon = VStr(AliasOrder[k])
                /\ \A j \in MatchingEntries : k <= j

\* Witness of C22: a header that two entries of the table match was given
\* the name of the first.
C22_Witness ==
    /\ hdr_i > 0
    /\ columns[hdr_i] = Chars("20GP / 40HC")
    /\ Cardinality(MatchingEntries) = 2
    /\ hdr_canon = VStr("loading_20gp")

\* The raw headers of the sheet that match the canonical name.
Competitors(canon) ==
    {columns[i] : i \in {j \in 1..Len(columns) :
                            match_header(columns[j]) = VStr(canon)}}

\* The raw headers renamed to the canonical name.
RenamedTo(canon) ==
    {rename[i].raw : i \in {j \in 1..Len(rename) : rename[j].canon = canon}}

\* C23: once every column is handled, of the raw headers that match one
\* canonical name exactly one is renamed to it, and that one is a longest
\* of them or is "ID.1".
C23_DuplicateHeaders ==
    hdr_i = Len(columns) =>
        \A k \in 1..Len(AliasOrder) :
            LET canon == AliasOrder[k] IN
            Cardinality(Competitors(canon)) >= 2 =>
                /\ Cardinality(RenamedTo(canon)) = 1
                /\ \A kept \in RenamedTo(canon) :
                    \/ kept = <<"I", "D", ".", "1">>
                    \/ \A c \in Competitors(canon) : Len(c) <= Len(kept)


(***************************************************************************)
(* excel_to_products.py: the cell parsers.                                 *)
(*                                                                         *)
(* A cell is None, NaN or text; a number read from the sheet is its        *)
(* str().  The texts are built from characters that cover digits, the      *)
(* separators the parsers remove or split on, a sign, a decimal point and  *)
(* letters; none of them starts an exponent, "inf" or a digit group with   *)
(* an underscore, so float() accepts exactly sign, digits and point.       *)
(***************************************************************************)
MaxCellLen == 3

CellChars == {"1", "2", ",", " ", "x", ".", "-", "Y", "/", "a"}

SampleCells ==
    Texts({"1,200", "12'500", "abc", "yes", "YES", "true", "n/a", "N/A", "na",
           "no", "1.0", "a/b;c,d", "12 x 34"})

ParserCells ==
    {VNone, JsNaN}
    \cup {VStr(s) : s \in UNION {[1..n -> CellChars] : n \in 0..MaxCellLen}}
    \cup {VStr(s) : s \in SampleCells}

\* pd.isna(x) of a scalar.
IsNA(x) == x \in {VNone, JsNaN}

\* repr() of a text: single quotes unless the text holds one.
PyRepr(s) ==
    IF \E i \in 1..Len(s) : s[i] = "'"
    THEN <<"\"">> \o s \o <<"\"">> ELSE <<"'">> \o s \o <<"'">>

\* str(x) of a value that is not missing: text, bool, int, or a list of at
\* most one text.
StrOf(x) ==
    CASE x.t = "str" -> x.s
      [] x.t = "bool" -> IF x.b THEN Chars("True") ELSE Chars("False")
      [] x.t = "int" -> IF x.n < 0 THEN <<"-">> \o Decimal(0 - x.n)
                        ELSE Decimal(x.n)
      [] x.t = "list" -> IF x.l = <<>> THEN Chars("[]")
                         ELSE <<"[">> \o PyRepr(x.l[1]) \o <<"]">>

\* yesno_to_bool without the .lower().
yesno_to_bool_no_lower(x) ==
    IF IsNA(x) THEN PyBool(FALSE)
    ELSE PyBool(Strip(StrOf(x)) \in Texts({"yes", "y", "true", "1"}))

\* yesno_to_bool (lines 53-58).
yesno_to_bool(x) ==
    IF IsNA(x) THEN PyBool(FALSE)
    ELSE PyBool(Lower(Strip(StrOf(x))) \in Texts({"yes", "y", "true", "1"}))

\* s.replace(c, "").
Without(s, c) == SelectSeq(s, LAMBDA d : d # c)

AllDigits(s) == \A i \in 1..Len(s) : s[i] \in DigitChars

\* float(s) succeeds with a finite value: an optional sign, then digits
\* with an optional point, or a point followed by digits.
IsNumber(s) ==
    LET u == IF s # <<>> /\ Head(s) = "-" THEN Tail(s) ELSE s
        p == SelectSeq(u, LAMBDA d : d = ".")
        w == TakeWhile(u, DigitChars)
        f == SubSeq(u, Len(w) + 2, Len(u))
    IN IF Len(p) = 0 THEN u # <<>> /\ AllDigits(u)
       ELSE /\ Len(p) = 1
            /\ Len(w) < Len(u) /\ u[Len(w) + 1] = "."
            /\ AllDigits(f)
            /\ Len(w) + Len(f) > 0

\* int(float(s)) of such a text: the fraction is cut off.
IntOfNumber(s) ==
    LET neg == s # <<>> /\ Head(s) = "-"
        u   == IF neg THEN Tail(s) ELSE s
        w   == ToInt(TakeWhile(u, DigitChars))
    IN IF neg THEN 0 - w ELSE w

\* "".join(DIGITS.findall(s)) (lines 60 and 69): every digit of the text.
all_digits(s) == SelectSeq(s, LAMBDA d : d \in DigitChars)

\* parse_int (lines 61-70).
parse_int(x) ==
    IF IsNA(x) THEN VNone
    ELSE LET s == Lower(Strip(StrOf(x)))
             t == Without(Without(Without(s, "'"), ","), " ")
         IN IF s \in Texts({"", "n/a", "na", "-"}) THEN VNone
            ELSE IF IsNumber(t) THEN VInt(IntOfNumber(t))
            ELSE IF all_digits(t) # <<>> THEN VInt(ToInt(all_digits(t)))
            ELSE VNone

\* re.split(r"[\/,;]", s): the pieces between the separators.
RECURSIVE split_list(_)
split_list(s) ==
    LET seps == {i \in 1..Len(s) : s[i] \in {"/", ",", ";"}}
        k    == CHOOSE i \in seps : \A j \in seps : i <= j
    IN IF seps = {} THEN <<s>>
       ELSE <<SubSeq(s, 1, k - 1)>> \o split_list(SubSeq(s, k + 1, Len(s)))

\* parse_iso_list (lines 72-77) of a scalar cell.
parse_iso_list(x) ==
    IF IsNA(x) THEN VList(<<>>)
    ELSE LET s == Strip(StrOf(x))
             parts == [i \in 1..Len(split_list(s)) |-> Strip(split_list(s)[i])]
         IN IF s = <<>> \/ Lower(s) \in Texts({"n/a", "na", "-"})
            THEN VList(<<>>)
            ELSE VList(SelectSeq(parts, LAMBDA p : p # <<>>))

Raised == [t |-> "raised"]

\* parse_iso_list of a list: pd.isna(list) is an array, one flag per
\* element, and `if array` raises ValueError for two elements or more; for
\* an empty array it is False or raises, depending on the numpy installed.
parse_iso_list_of_list(x, empty_raises) ==
    IF Len(x.l) >= 2 \/ (x.l = <<>> /\ empty_raises) THEN Raised
    ELSE parse_iso_list(VStr(StrOf(x)))

ParseInit ==
    /\ pr_pc = "cell"
    /\ pr_cell \in ParserCells
    /\ parsed = VNone
    /\ reparsed = VNone

\* build_variation hands the cell to a parser (lines 82-92).
ParseCell ==
    /\ pr_pc = "cell"
    /\ parsed' = [bool |-> yesno_to_bool(pr_cell),
                  int  |-> parse_int(pr_cell),
                  list |-> parse_iso_list(pr_cell)]
    /\ pr_pc' = "parsed"
    /\ UNCHANGED <<pr_cell, reparsed>>
    /\ UNCHANGED notParse

\* Each parser is handed its own output.
ReparseOutput ==
    /\ pr_pc = "parsed"
    /\ \E empty_raises \in BOOLEAN :
        reparsed' = [bool |-> yesno_to_bool(parsed.bool),
                     int  |-> parse_int(parsed.int),
                     list |-> parse_iso_list_of_list(parsed.list, empty_raises)]
    /\ pr_pc' = "reparsed"
    /\ UNCHANGED <<pr_cell, parsed>>
    /\ UNCHANGED notParse

ParseNext == ParseCell \/ ReparseOutput

InitParse == ParseInit /\ PipelinesIdle /\ SessionIdle /\ HeadersIdle
             /\ EnrichIdle /\ RaceIdle
SpecParse == InitParse /\ [][ParseNext]_vars

(***************************************************************************)
(* Properties of the cell parsers (SpecParse).                             *)
(***************************************************************************)

\* The cell has been parsed.
WasParsed == pr_pc \in {"parsed", "reparsed"}

\* The text of the cell, trimmed and lower-cased.
CellWord == Lower(Strip(pr_cell.s))

\* The text with apostrophes, commas and blanks removed.
CleanWord == SelectSeq(CellWord, LAMBDA c : c \notin {"'", ",", " "})

\* The runs of digits of the cleaned text, as pairs of positions.
DigitRuns ==
    {r \in (1..Len(CleanWord)) \X (1..Len(CleanWord)) :
        /\ r[1] <= r[2]
        /\ \A i \in r[1]..r[2] : CleanWord[i] \in DigitChars
        /\ r[1] > 1 => CleanWord[r[1] - 1] \notin DigitChars
        /\ r[2] < Len(CleanWord) => CleanWord[r[2] + 1] \notin DigitChars}

\* C24: parse_int returns null for a missing, empty or placeholder cell;
\* otherwise the integer value of the cleaned text when it is a number,
\* else the integer formed by a longest run of digits, else null.
C24_ParseInt ==
    WasParsed =>
        IF IsNA(pr_cell) \/ CellWord \in Texts({"", "n/a", "na", "-"})
        THEN parsed.int = VNone
        ELSE IF IsNumber(CleanWord)
        THEN parsed.int = VInt(IntOfNumber(CleanWord))
        ELSE IF DigitRuns = {} THEN parsed.int = VNone
        ELSE \E r \in DigitRuns :
                /\ \A q \in DigitRuns : q[2] - q[1] <= r[2] - r[1]
                /\ parsed.int = VInt(ToInt(SubSeq(CleanWord, r[1], r[2])))

\* C25: yesno_to_bool returns true exactly when the trimmed, lower-cased
\* text of the cell is "yes", "y", "true" or "1", and false for everything
\* else, a missing cell and the empty text included.
C25_YesNoTotal ==
    WasParsed =>
        /\ parsed.bool \in {PyBool(TRUE), PyBool(FALSE)}
        /\ parsed.bool = PyBool(TRUE) <=>
            /\ ~IsNA(pr_cell)
            /\ \/ CellWord = <<"y", "e", "s">>
               \/ CellWord = <<"y">>
               \/ CellWord = <<"t", "r", "u", "e">>
               \/ CellWord = <<"1">>

\* Witness of C25: an upper-case "Y" between blanks was read as true.
C25_Witness ==
    /\ WasParsed
    /\ pr_cell = VStr(<<" ", "Y", " ">>)
    /\ parsed.bool = PyBool(TRUE)

\* C26: each parser handed its own output returns that output unchanged.
C26_ParsersIdempotent ==
    pr_pc = "reparsed" =>
        /\ reparsed.bool = parsed.bool
        /\ reparsed.int = parsed.int
        /\ reparsed.list = parsed.list


(***************************************************************************)
(* excel_to_products_enriched.py: variations written into an existing      *)
(* catalog.  The run is made without --only-ref and --limit-variations;    *)
(* the sheet is prepared as in excel_to_products.py (lines 124-138).       *)
(***************************************************************************)
MaxEnriched == 2
MaxEnrichRows == 2

R99 == <<"9", ".", "9">>

OldVariation == build_variation([size |-> <<"M">>])

\* The products of products_enriched.json; two may share a reference.
EnrichedProducts ==
    {[data |-> [referenceString |-> ref, name |-> <<"A">>, variations |-> v]] :
        ref \in {R12, R110}, v \in {<<>>, <<OldVariation>>}}

EnrichedCatalogs == UNION {[1..n -> EnrichedProducts] : n \in 1..MaxEnriched}

\* The rows of the sheet: references of the catalog and one that is not in
\* it, a continuation row, a row with a blank size and one without a size.
EnrichRows ==
    {SheetRow(ref, NaN, <<"S">>) : ref \in {NaN, R12, R110, R99}}
    \cup {SheetRow(R12, NaN, <<" ">>), SheetRow(R110, NaN, NaN)}

EnrichSheets == UNION {[1..n -> EnrichRows] : n \in 1..MaxEnrichRows}

\* build_variation of excel_to_products_enriched.py (lines 62-77): as in
\* excel_to_products.py, but the size goes through str().
build_variation_enriched(r) ==
    [build_variation(r) EXCEPT !.size = Strip(PyStr(OrEmpty(r.size)))]

\* Line 149: str(r.get("reference") or "").strip().
row_reference(r) == Strip(PyStr(OrEmpty(r.reference)))

\* Lines 95-98: products_lookup[ref] is the last product of the array with
\* that reference; 0 when there is none.
products_lookup(prods, ref) ==
    LET hits == {i \in 1..Len(prods) : prods[i].data.referenceString = ref}
    IN IF hits = {} THEN 0 ELSE CHOOSE i \in hits : \A j \in hits : j <= i

\* Position of a reference in variations_by_ref, 0 when absent.
variations_index(items, ref) ==
    IF \E i \in 1..Len(items) : items[i].ref = ref
    THEN CHOOSE i \in 1..Len(items) : items[i].ref = ref
    ELSE 0

\* Lines 156-162: variations_by_ref after a row of a known reference.
with_row(items, r) ==
    LET ref   == row_reference(r)
        known == IF variations_index(items, ref) = 0
                 THEN Append(items, [ref |-> ref, variations |-> <<>>])
                 ELSE items
        k     == variations_index(known, ref)
    IN [known EXCEPT ![k].variations = Append(@, build_variation_enriched(r))]

\* Lines 182-186 with the variations of a reference (none when it has no
\* row) given to every product.
apply_variations_to_all(prods, items) ==
    [i \in 1..Len(prods) |->
        LET k == variations_index(items, prods[i].data.referenceString)
        IN [prods[i] EXCEPT !.data.variations =
                IF k = 0 THEN <<build_variation_enriched([size |-> <<>>])>>
                ELSE items[k].variations]]

\* Lines 182-186: each item of variations_by_ref replaces the variations of
\* the product the lookup holds for its reference.
RECURSIVE apply_variations(_, _)
apply_variations(prods, items) ==
    IF items = <<>> THEN prods
    ELSE LET k == products_lookup(prods, Head(items).ref)
             next == IF k = 0 THEN prods
                     ELSE [prods EXCEPT ![k].data.variations =
                                            Head(items).variations]
         IN apply_variations(next, Tail(items))

EnrichInit ==
    /\ en_pc = "read"
    /\ en_catalog \in EnrichedCatalogs
    /\ en_df \in EnrichSheets
    /\ existing_products = <<>>
    /\ en_i = 0
    /\ variations_by_ref = <<>>
    /\ products_not_found = {}
    /\ en_output = VNone

\* Lines 89-141: read the catalog and the sheet, prepare the frame.
EnrichRead ==
    /\ en_pc = "read"
    /\ existing_products' = en_catalog
    /\ en_df' = prepared_frame(en_df)
    /\ en_pc' = "rows"
    /\ UNCHANGED <<en_catalog, en_i, variations_by_ref, products_not_found,
                   en_output>>
    /\ UNCHANGED notEnrich

\* Lines 148-164: one row of the frame.
EnrichRow ==
    /\ en_pc = "rows"
    /\ en_i < Len(en_df)
    /\ LET r   == en_df[en_i + 1]
           ref == row_reference(r)
       IN IF ref = <<>>
          THEN UNCHANGED <<variations_by_ref, products_not_found>>
          ELSE IF products_lookup(existing_products, ref) # 0
          THEN /\ variations_by_ref' = with_row(variations_by_ref, r)
               /\ UNCHANGED products_not_found
          ELSE /\ products_not_found' = products_not_found \cup {ref}
               /\ UNCHANGED variations_by_ref
    /\ en_i' = en_i + 1
    /\ UNCHANGED <<en_pc, existing_products, en_catalog, en_df, en_output>>
    /\ UNCHANGED notEnrich

\* Lines 180-193: give the products their variations, write the array.
EnrichWrite ==
    /\ en_pc = "rows"
    /\ en_i = Len(en_df)
    /\ existing_products' = apply_variations(existing_products, variations_by_ref)
    /\ en_output' = apply_variations(existing_products, variations_by_ref)
    /\ en_pc' = "done"
    /\ UNCHANGED <<en_catalog, en_df, en_i, variations_by_ref,
                   products_not_found>>
    /\ UNCHANGED notEnrich

EnrichNext == EnrichRead \/ EnrichRow \/ EnrichWrite

InitEnrich == EnrichInit /\ PipelinesIdle /\ SessionIdle /\ HeadersIdle
              /\ ParseIdle /\ RaceIdle
SpecEnrich == InitEnrich /\ [][EnrichNext]_vars

(***************************************************************************)
(* Properties of the variation rewrite (SpecEnrich).                       *)
(***************************************************************************)

\* The references of the rows that survived the filters.
SurvivingRefs == {row_reference(en_df[i]) : i \in 1..Len(en_df)}

\* A product with its variations left out.
Parent(p) == [f \in DOMAIN p.data \ {"variations"} |-> p.data[f]]

\* C27: the output holds the products of the input catalog, in the same
\* order, changed in nothing but `variations`, and changed there only for
\* products whose reference has a surviving row in the sheet.
C27_WholeArrayRewrite ==
    en_pc = "done" =>
        /\ Len(en_output) = Len(en_catalog)
        /\ \A i \in 1..Len(en_catalog) :
            /\ Parent(en_output[i]) = Parent(en_catalog[i])
            /\ DOMAIN en_output[i].data = DOMAIN en_catalog[i].data
            /\ en_output[i].data.variations # en_catalog[i].data.variations
                => en_catalog[i].data.referenceString \in SurvivingRefs

\* Witness of C27: a run wrote an array in which one product has new
\* variations and another is untouched, from a sheet that also named a
\* reference the catalog does not hold.
C27_Witness ==
    /\ en_pc = "done"
    /\ R99 \in products_not_found
    /\ Len(en_output) = 2
    /\ en_output[1].data.variations # en_catalog[1].data.variations
    /\ en_output[2] = en_catalog[2]
    /\ en_catalog[2].data.variations # <<>>


(***************************************************************************)
(* core/sync_categories_with_online.py and update_product_ids.py run       *)
(* against the same products.json.  Each script reads the whole file,      *)
(* changes its copy in memory and writes the whole file; a read and a      *)
(* write are one step each.                                                *)
(***************************************************************************)
MaxRaceProducts == 2

\* create_category_mapping: the mapping handed to update_products_json.
SyncMapping == [gloves |-> "Exam Gloves"]

\* categories_map.json and divisions_map.json of update_product_ids.
IdsCategoriesMap == ("gloves" :> 3) @@ ("Exam Gloves" :> 5) @@ ("masks" :> 4)
IdsDivisionsMap == [Medical |-> 1]

RaceProducts ==
    {[data |-> [categoryName |-> cn, category |-> c, divisionNames |-> dn,
                divisions |-> <<>>]] :
        cn \in {"gloves", "masks", ""}, c \in {VNone, VInt(3)},
        dn \in {<<>>, <<"Medical", "Dental">>}}

RaceCatalogs == UNION {[1..n -> RaceProducts] : n \in 1..MaxRaceProducts}

\* update_products_json that renames nothing.
update_products_json_unmapped(prods, mapping) == prods

\* update_products_json (lines 128-138): the copy after the loop.
update_products_json(prods, mapping) ==
    [i \in 1..Len(prods) |->
        LET current_category == prods[i].data.categoryName
        IN IF current_category # "" /\ current_category \in DOMAIN mapping
           THEN [prods[i] EXCEPT !.data.categoryName = mapping[current_category]]
           ELSE prods[i]]

\* Lines 76-88: the division ids of the names the map knows.
new_divisions(names, dmap) ==
    LET known == SelectSeq(names, LAMBDA d : d \in DOMAIN dmap)
    IN [i \in 1..Len(known) |-> dmap[known[i]]]

\* update_product_ids (lines 42-104): the copy after the loop.
update_product_ids(prods, cmap, dmap) ==
    [i \in 1..Len(prods) |->
        LET d    == prods[i].data
            cat  == IF d.categoryName # "" /\ d.categoryName \in DOMAIN cmap
                    THEN VInt(cmap[d.categoryName]) ELSE d.category
            divs == IF d.divisionNames # <<>>
                       /\ new_divisions(d.divisionNames, dmap) # <<>>
                    THEN new_divisions(d.divisionNames, dmap) ELSE d.divisions
        IN [data |-> [d EXCEPT !.category = cat, !.divisions = divs]]]

RaceInit ==
    /\ products_json \in RaceCatalogs
    /\ rc_original = products_json
    /\ sync_pc = "load"
    /\ sync_products = VNone
    /\ ids_pc = "load"
    /\ ids_products = VNone
    /\ products_backup = VNone
    /\ rc_log = <<>>

\* update_products_json, lines 121-138: read the file, rename in memory.
SyncLoad ==
    /\ sync_pc = "load"
    /\ sync_products' = update_products_json(products_json, SyncMapping)
    /\ sync_pc' = "write"
    /\ rc_log' = Append(rc_log, "sync_load")
    /\ UNCHANGED <<products_json, rc_original, ids_pc, ids_products,
                   products_backup>>
    /\ UNCHANGED notRace

\* update_products_json, lines 141-146: write the copy.
SyncWrite ==
    /\ sync_pc = "write"
    /\ products_json' = sync_products
    /\ sync_pc' = "done"
    /\ rc_log' = Append(rc_log, "sync_write")
    /\ UNCHANGED <<rc_original, sync_products, ids_pc, ids_products,
                   products_backup>>
    /\ UNCHANGED notRace

\* update_product_ids.main, lines 144-150: read the file, set the ids in
\* memory.
IdsLoad ==
    /\ ids_pc = "load"
    /\ ids_products' =
           update_product_ids(products_json, IdsCategoriesMap, IdsDivisionsMap)
    /\ ids_pc' = "write"
    /\ rc_log' = Append(rc_log, "ids_load")
    /\ UNCHANGED <<products_json, rc_original, sync_pc, sync_products,
                   products_backup>>
    /\ UNCHANGED notRace

\* save_updated_products, lines 110-123: copy the file as it is now to the
\* backup, write the copy of the catalog.
IdsWrite ==
    /\ ids_pc = "write"
    /\ products_backup' = products_json
    /\ products_json' = ids_products
    /\ ids_pc' = "done"
    /\ rc_log' = Append(rc_log, "ids_write")
    /\ UNCHANGED <<rc_original, sync_pc, sync_products, ids_products>>
    /\ UNCHANGED notRace

RaceNext == SyncLoad \/ SyncWrite \/ IdsLoad \/ IdsWrite

InitRace == RaceInit /\ PipelinesIdle /\ SessionIdle /\ HeadersIdle
            /\ ParseIdle /\ EnrichIdle
SpecRace == InitRace /\ [][RaceNext]_vars

(***************************************************************************)
(* Properties of the concurrent rewrite (SpecRace).                        *)
(***************************************************************************)

BothDone == sync_pc = "done" /\ ids_pc = "done"

\* Position of an event in the log.
At(e) == CHOOSE i \in 1..Len(rc_log) : rc_log[i] = e

\* Both scripts loaded before either wrote.
Overlapped ==
    /\ At("sync_load") < At("ids_write")
    /\ At("ids_load") < At("sync_write")

LastWriter == IF At("sync_write") > At("ids_write") THEN "sync" ELSE "ids"

\* The name sync_categories gives a category name.
OnlineName(cn) == IF cn = "gloves" THEN "Exam Gloves" ELSE cn

\* The id update_product_ids gives a product of that category name and id.
IdOf(cn, c) ==
    CASE cn = "gloves" -> VInt(3) [] cn = "Exam Gloves" -> VInt(5)
      [] cn = "masks" -> VInt(4) [] OTHER -> c

\* The divisions update_product_ids gives a product of those division names.
DivisionsOf(dn, divs) == IF dn = <<>> THEN divs ELSE <<1>>

\* C28: when both scripts loaded before either wrote, products.json holds
\* the changes of the last writer only and those of the other are lost;
\* when the runs did not overlap, the changes of both are in the file.
C28_LastWriterWins ==
    BothDone =>
        /\ Len(products_json) = Len(rc_original)
        /\ \A i \in 1..Len(rc_original) :
            LET old == rc_original[i].data
                new == products_json[i].data
            IN /\ (Overlapped /\ LastWriter = "sync") =>
                    /\ new.categoryName = OnlineName(old.categoryName)
                    /\ new.category = old.category
                    /\ new.divisions = old.divisions
               /\ (Overlapped /\ LastWriter = "ids") =>
                    /\ new.categoryName = old.categoryName
                    /\ new.category = IdOf(old.categoryName, old.category)
                    /\ new.divisions = DivisionsOf(old.divisionNames, old.divisions)
               /\ (~Overlapped /\ LastWriter = "ids") =>
                    /\ new.categoryName = OnlineName(old.categoryName)
                    /\ new.category =
                         IdOf(OnlineName(old.categoryName), old.category)
                    /\ new.divisions = DivisionsOf(old.divisionNames, old.divisions)
               /\ (~Overlapped /\ LastWriter = "sync") =>
                    /\ new.categoryName = OnlineName(old.categoryName)
                    /\ new.category = IdOf(old.categoryName, old.category)
                    /\ new.divisions = DivisionsOf(old.divisionNames, old.divisions)

\* Witness of C28: both scripts loaded the same file, update_product_ids
\* wrote first, sync_categories wrote last, and the ids the first had set
\* are not in the file.
C28_Witness ==
    /\ BothDone
    /\ Overlapped
    /\ LastWriter = "sync"
    /\ ids_products # rc_original
    /\ products_backup = rc_original
    /\ products_json[1].data.categoryName = "Exam Gloves"
    /\ products_json[1].data.category = VNone
    /\ ids_products[1].data.category = VInt(3)

====
